---- MODULE Spec2Model ----
(***************************************************************************)
(* Model of the semantic-video analysis client: the batch orchestrator     *)
(* (SemanticVideoClient.analyzeMultipleVideos), the per-video pipeline     *)
(* (SemanticVideo.analyze with extractFrames, analyzeFrames and cleanup),  *)
(* the video registry, the statistics tracker and the cost model.          *)
(*                                                                         *)
(* Granularity: one action per event-loop callback (an ffprobe, mkdir,     *)
(* ffmpeg, HTTP, readdir or unlink completion) together with the promise   *)
(* continuations of the pipeline it resumes, which run before any other    *)
(* callback.  The batch loop and the .then / .finally callbacks of a video *)
(* promise are actions of their own.                                       *)
(*                                                                         *)
(* Numbers: a cost is kept in units of 1e-9 USD (tokens times a rate in    *)
(* 1e-3 USD per million tokens), so the cost arithmetic is exact.          *)
(* Durations are chosen divisible by every frame count in range, so the    *)
(* timestamp arithmetic is exact as well.                                  *)
(***************************************************************************)
EXTENDS Integers, Sequences, FiniteSets, TLC

(* ------------------------------ bounds -------------------------------- *)

\* Longest list of configs handed to analyzeMultipleVideos.
MaxVideos == 3

\* Largest frame count requested from SemanticVideo.analyze.
MaxFrames == 2

\* Number of analyzeVideo calls a caller makes (they may overlap).
MaxCalls == 2

\* Largest video-level concurrency limit handed to the client's constructor.
MaxLimit == 2

\* Largest frame-level concurrency limit handed to the client's constructor.
MaxFrameLimit == 1

\* Largest frame count requested when a single analyzeVideo call is made.
MaxSoloFrames == 3

\* Largest token count, in thousands, a cost is computed for.
MaxTokens == 2

\* Longest prompt, in characters, whose tokens are counted.
MaxTextLen == 9

\* Most estimateVideo calls a caller makes directly.
MaxEstimateCalls == 1

\* Longest list of videos handed to estimateMultipleVideos.
MaxEstimated == 2

\* Number of calls a caller makes on the registry.
MaxRegistryCalls == 4

\* Number of calls a caller makes on the statistics tracker.
MaxStatsCalls == 3

\* Number of calls a caller makes on the logger.
MaxLoggerCalls == 4

(* ------------------------- program constants -------------------------- *)

DEFAULT_MODEL == "gpt-5-nano"

DEFAULT_VISION_MODEL == "gpt-5-nano"

\* config.numPartitions || 10
DefaultPartitions == 10

\* config.quality || 10
DefaultQuality == 10

\* constructor: maxConcurrency: number = 3
DefaultConcurrency == 3

\* constructor: maxFrameConcurrency: number = 5
DefaultFrameConcurrency == 5

(* --------------------------- the environment -------------------------- *)

\* Video paths a caller may name; the last one is not a file on disk.
Paths == {"a.mp4", "b.mp4", "gone.mp4"}

\* fs.existsSync(videoPath)
FileExists(p) == p /= "gone.mp4"

\* metadata.format.duration as ffprobe reports it for each file.
ProbedDuration(p) == IF p = "a.mp4" THEN 12 ELSE 24

\* The paths analyzeVideo is called with.
CallPaths == {"a.mp4", "gone.mp4"}

\* The options analyzeVideo is called with: a JPEG quality and a model identifier,
\* both left out (0 and "" stand for "not given"), or both given.
CallOptions == {[quality |-> 0, model |-> ""], [quality |-> 2, model |-> "gpt-4.1"]}

\* response.usage as the inference service may report it: absent, or present.
NoUsage == [usage |-> "undefined"]
Usages == {NoUsage,
           [prompt_tokens |-> 5, completion_tokens |-> 2]}

\* The still image ffmpeg produces for a video, a timestamp and a quality.
Image(p, ts, q) == <<p, ts, q>>

\* The description the inference service returns for an image.
Describe(img) == <<"description of", img>>

NoImage == <<>>

(* ----------------------------- cost model ----------------------------- *)

\* VISION_MODELS[id].pricing, each rate multiplied by 1000.
VISION_MODELS ==
  [m \in {"gpt-5.2", "gpt-5.2-pro", "gpt-5.1", "gpt-5", "gpt-5-pro", "gpt-5-mini",
          "gpt-5-nano", "gpt-4.1", "gpt-4.1-mini", "gpt-4.1-nano", "o3", "o3-pro",
          "o4-mini", "o1"} |->
     CASE m = "gpt-5.2"      -> [inputCostPerMillion |-> 1750,  cachedInputCostPerMillion |-> 175,   outputCostPerMillion |-> 14000]
       [] m = "gpt-5.2-pro"  -> [inputCostPerMillion |-> 21000, cachedInputCostPerMillion |-> 21000, outputCostPerMillion |-> 168000]
       [] m = "gpt-5.1"      -> [inputCostPerMillion |-> 1250,  cachedInputCostPerMillion |-> 125,   outputCostPerMillion |-> 10000]
       [] m = "gpt-5"        -> [inputCostPerMillion |-> 1250,  cachedInputCostPerMillion |-> 125,   outputCostPerMillion |-> 10000]
       [] m = "gpt-5-pro"    -> [inputCostPerMillion |-> 15000, cachedInputCostPerMillion |-> 15000, outputCostPerMillion |-> 120000]
       [] m = "gpt-5-mini"   -> [inputCostPerMillion |-> 250,   cachedInputCostPerMillion |-> 25,    outputCostPerMillion |-> 2000]
       [] m = "gpt-5-nano"   -> [inputCostPerMillion |-> 50,    cachedInputCostPerMillion |-> 5,     outputCostPerMillion |-> 400]
       [] m = "gpt-4.1"      -> [inputCostPerMillion |-> 2000,  cachedInputCostPerMillion |-> 500,   outputCostPerMillion |-> 8000]
       [] m = "gpt-4.1-mini" -> [inputCostPerMillion |-> 400,   cachedInputCostPerMillion |-> 100,   outputCostPerMillion |-> 1600]
       [] m = "gpt-4.1-nano" -> [inputCostPerMillion |-> 100,   cachedInputCostPerMillion |-> 25,    outputCostPerMillion |-> 400]
       [] m = "o3"           -> [inputCostPerMillion |-> 2000,  cachedInputCostPerMillion |-> 500,   outputCostPerMillion |-> 8000]
       [] m = "o3-pro"       -> [inputCostPerMillion |-> 20000, cachedInputCostPerMillion |-> 20000, outputCostPerMillion |-> 80000]
       [] m = "o4-mini"      -> [inputCostPerMillion |-> 1100,  cachedInputCostPerMillion |-> 275,   outputCostPerMillion |-> 4400]
       [] OTHER              -> [inputCostPerMillion |-> 15000, cachedInputCostPerMillion |-> 7500,  outputCostPerMillion |-> 60000]]

\* The value undefined.
Undefined == [undefined |-> TRUE]

\* The properties every object literal inherits from Object.prototype.
ObjectPrototypeKeys ==
  {"constructor", "toString", "toLocaleString", "valueOf", "hasOwnProperty",
   "isPrototypeOf", "propertyIsEnumerable", "__proto__"}

\* VISION_MODELS[modelId]: the table's own entry; or, the table being an object
\* literal, the property Object.prototype has by that name, an object or function
\* with no `pricing`; or undefined.
PropertyOf(modelId) ==
  IF modelId \in DOMAIN VISION_MODELS THEN [pricing |-> VISION_MODELS[modelId]]
  ELSE IF modelId \in ObjectPrototypeKeys THEN [pricing |-> Undefined]
  ELSE Undefined

\* VISION_MODELS[modelId] || VISION_MODELS[DEFAULT_VISION_MODEL]
getModelConfig(modelId) ==
  IF PropertyOf(modelId) /= Undefined
     THEN PropertyOf(modelId)
     ELSE PropertyOf(DEFAULT_VISION_MODEL)

getModelPricing(modelId) == getModelConfig(modelId).pricing

\* No call of the pricing functions yet.
NoQuote == [op |-> "none"]

\* calculateCost reads a rate of `pricing`: a TypeError when pricing is undefined.
calculateCostThrows(modelId) == getModelPricing(modelId) = Undefined

\* A cost that takes the standard input rate whatever the caller asks.
calculateCostUncached(inputTokens, outputTokens, modelId, useCachedInput) ==
  LET pricing == getModelPricing(modelId)
  IN  inputTokens * pricing.inputCostPerMillion
      + outputTokens * pricing.outputCostPerMillion

\* calculateCost, lines 287-302; tokens times rate-times-1000, that is the cost in
\* units of 1e-9 USD.
calculateCost(inputTokens, outputTokens, modelId, useCachedInput) ==
  LET pricing == getModelPricing(modelId)
      inputCostRate == IF useCachedInput THEN pricing.cachedInputCostPerMillion
                                         ELSE pricing.inputCostPerMillion
  IN  inputTokens * inputCostRate + outputTokens * pricing.outputCostPerMillion

(* --------------------------- token estimate --------------------------- *)

\* VISION_MODELS[id].imageTokenMultiplier, multiplied by 100.
ImageTokenMultipliers ==
  [m \in DOMAIN VISION_MODELS |->
     CASE m \in {"gpt-5-mini", "gpt-4.1-mini"} -> 162
       [] m \in {"gpt-5-nano", "gpt-4.1-nano"} -> 246
       [] m = "o4-mini"                        -> 172
       [] OTHER                                -> 100]

\* getImageTokenMultiplier: config.imageTokenMultiplier of getModelConfig's result.
getImageTokenMultiplier(modelId) ==
  IF modelId \in DOMAIN VISION_MODELS THEN ImageTokenMultipliers[modelId]
  ELSE IF modelId \in ObjectPrototypeKeys THEN Undefined
  ELSE ImageTokenMultipliers[DEFAULT_VISION_MODEL]

\* Math.ceil(a / b) for whole numbers a >= 0 and b > 0.
CeilDiv(a, b) == (a + b - 1) \div b

\* Math.floor(Math.sqrt(n)) for a whole number n.
RECURSIVE RootBetween(_, _, _)
RootBetween(n, lo, hi) ==
  IF lo = hi THEN lo
  ELSE LET mid == (lo + hi + 1) \div 2
       IN  IF mid * mid <= n THEN RootBetween(n, mid, hi)
                             ELSE RootBetween(n, lo, mid - 1)
FloorSqrt(n) == RootBetween(n, 0, n)

\* The image sizes sharp reports for the frames estimated: none (0 x 0), the
\* frames of common videos, and sizes at the 1536-patch threshold.
ImageSizes ==
  {<<0, 0>>, <<640, 360>>, <<1024, 1024>>, <<1280, 720>>, <<1535, 1024>>,
   <<1536, 1024>>, <<1600, 1200>>, <<1920, 1080>>, <<2048, 1024>>, <<2560, 1440>>,
   <<3840, 2160>>, <<4096, 2160>>}

\* countImageTokens computes in IEEE 754 doubles.  The side that the adjusted factor
\* is meant to bring to a whole number of patches, f = floor(side * s / 32), comes
\* out as side * shrink_factor / 32 = f exactly for most sizes, but a double just
\* above f for others, and the other side, not a whole number in exact arithmetic,
\* can cross one too: by how many patches Math.ceil then exceeds the exact value,
\* per side, for the sizes of ImageSizes (1600 x 1200: 44.00000000000001 and
\* 33.00000000000001; 2560 x 1440: 29.000000000000004).
Float64Excess(width, height) ==
  CASE <<width, height>> = <<1600, 1200>> -> [w |-> 1, h |-> 1]
    [] <<width, height>> = <<2560, 1440>> -> [w |-> 0, h |-> 1]
    [] OTHER                              -> [w |-> 0, h |-> 0]

\* countImageTokens, the branch rawPatches >= 1536.  With s the factor
\* sqrt(32^2 * 1536 / (W * H)): W * s / 32 = sqrt(1536 * W / H) and
\* H * s / 32 = sqrt(1536 * H / W); the adjusted factor makes the side with the
\* smaller floor(x)/x exactly floor(x) patches and scales the other side alike.
shrunkPatches(width, height) ==
  LET fw == FloorSqrt((1536 * width) \div height)
      fh == FloorSqrt((1536 * height) \div width)
      excess == Float64Excess(width, height)
      pw == IF fw * height <= fh * width THEN fw ELSE CeilDiv(fh * width, height)
      ph == IF fw * height <= fh * width THEN CeilDiv(fw * height, width) ELSE fh
  IN  (pw + excess.w) * (ph + excess.h)

\* countImageTokens on an image of the given size, for a multiplier times 100.
countImageTokens(width, height, multiplier) ==
  LET rawPatches == CeilDiv(width, 32) * CeilDiv(height, 32)
      image_tokens == IF rawPatches >= 1536 THEN shrunkPatches(width, height)
                                            ELSE rawPatches
  IN  CeilDiv(image_tokens * multiplier, 100) + 85

\* What the tokenizer does with a text of the given length: encoding_for_model
\* throws (no encoding for the model), encode throws, or encode returns tokens, at
\* most one per character.
TokenizerOutcomes(length) ==
  {[kind |-> "unavailable", tokens |-> 0], [kind |-> "raises", tokens |-> 0]}
  \cup {[kind |-> "ok", tokens |-> k] : k \in 0..length}

\* countTextTokens with a try block that ends before encode.
countTextTokensUnguarded(length, tokenizer) ==
  CASE tokenizer.kind = "ok"          -> [threw |-> FALSE, value |-> tokenizer.tokens]
    [] tokenizer.kind = "unavailable" -> [threw |-> FALSE, value |-> CeilDiv(length, 4)]
    [] OTHER                          -> [threw |-> TRUE, value |-> 0]

\* countTextTokens: tokens.length, or in the catch block Math.ceil(text.length / 4).
countTextTokens(length, tokenizer) ==
  IF tokenizer.kind = "ok"
     THEN [threw |-> FALSE, value |-> tokenizer.tokens]
     ELSE [threw |-> FALSE, value |-> CeilDiv(length, 4)]

(* ------------------------------ helpers ------------------------------- *)

\* The second argument stored as it is given.
MaxUnclamped(a, b) == b

Max(a, b) == IF a >= b THEN a ELSE b

RECURSIVE SumSeq(_)
SumSeq(s) == IF s = <<>> THEN 0 ELSE Head(s) + SumSeq(Tail(s))

\* The elements of a finite set of numbers in increasing order.
RECURSIVE SortedSeq(_)
SortedSeq(S) ==
  IF S = {} THEN <<>>
  ELSE LET m == CHOOSE x \in S : \A y \in S : x <= y
       IN  <<m>> \o SortedSeq(S \ {m})

(* ------------------------------- state -------------------------------- *)

VARIABLES
  maxConcurrency,       \* SemanticVideoClient.maxConcurrency (clamped)
  maxFrameConcurrency,  \* SemanticVideoClient.maxFrameConcurrency (clamped)
  registry,             \* VideoRegistry.videos: path -> instance (0: no entry)
  videos,               \* the SemanticVideo instances ever constructed
  stats,                \* StatsTracker's three totals
  dirs,                 \* scratch directories that exist on disk
  files,                \* files on disk: <<directory, frame number>> -> image
  runs,                 \* the SemanticVideo.analyze invocations, in start order
  configs,              \* analyzeMultipleVideos' argument
  batch,                \* analyzeMultipleVideos' loop: position, executing set
  tasks,                \* per config: the processVideo promise chain
  results,              \* analyzeMultipleVideos' results array
  calls,                \* the analyzeVideo calls made so far
  quote,                \* the last call of a pricing or token counting function
  estimator,            \* TokenEstimator's calls and the scratch files they share
  history,              \* the calls made on the registry, tracker or logger, in order
  logger                \* the Logger singleton's options and batch state

vars == <<maxConcurrency, maxFrameConcurrency, registry, videos, stats, dirs,
          files, runs, configs, batch, tasks, results, calls, quote, estimator,
          history, logger>>

\* The directory "" names: path.join("", file) is a file of the working directory.
Cwd == 0

NoError == [prefix |-> <<>>, cause |-> "", frame |-> 0]

\* error instanceof Error ? error.message : String(error), and JavaScript's
\* truthiness of the message (a non-empty string).
Truthy(error) == error.prefix /= <<>> \/ error.cause /= ""

\* new Error(`${what}: ${error.message}`)
Wrap(what, error) == [error EXCEPT !.prefix = <<what>> \o @]

\* A SemanticVideo as its constructor leaves it.
NewVideo(p) ==
  [videoPath |-> p, frames |-> <<>>, videoDuration |-> 0, framesDir |-> Cwd,
   inputTokensUsed |-> 0, outputTokensUsed |-> 0, modelUsed |-> DEFAULT_MODEL]

\* SemanticVideo.getTokensUsed
getTokensUsed(video) ==
  [inputTokens |-> video.inputTokensUsed,
   outputTokens |-> video.outputTokensUsed,
   totalTokens |-> video.inputTokensUsed + video.outputTokensUsed,
   model |-> video.modelUsed]

\* SemanticVideo.getFrame: this.frames.find((f) => f.frameNumber === frameNumber),
\* the first match or undefined.
getFrame(video, frameNumber) ==
  LET matches == {i \in DOMAIN video.frames : video.frames[i].frameNumber = frameNumber}
  IN  IF matches = {} THEN Undefined
      ELSE video.frames[CHOOSE i \in matches : \A j \in matches : i <= j]

\* What `await this.cleanup()` is followed by: `return this.frames`, or the throw
\* of analyze's catch block.
Return == [kind |-> "return", error |-> NoError]
Throw(error) == [kind |-> "throw", error |-> error]

NoOutcome == [kind |-> "", frames |-> <<>>, error |-> NoError]

\* One invocation of SemanticVideo.analyze: its arguments, its position, its locals.
NewRun(inst, numPartitions, quality, model, caller) ==
  [pc |-> "probe", inst |-> inst, n |-> numPartitions, quality |-> quality,
   model |-> model, caller |-> caller,
   ts |-> <<>>,       \* extractFrames' timestamps
   ext |-> <<>>,      \* each extractSingleFrame promise: running, written, ok, failed
   b64 |-> <<>>,      \* base64Frames
   ana |-> <<>>,      \* each analyzeFrames promise: pending, ok, failed
   sent |-> <<>>,     \* the image each request carries
   usg |-> <<>>,      \* each response's usage metadata
   res |-> <<>>,      \* each request's result
   wdir |-> Cwd,      \* analyze's tempDir (line 181): where the images are written back
   cdir |-> Cwd,      \* cleanup: the directory handed to readdir
   cfiles |-> <<>>,   \* cleanup: the names still to unlink
   unl |-> <<Cwd, 0>>,  \* cleanup: the file the pending unlink names
   after |-> Return,
   out |-> NoOutcome]

NoTask == [pc |-> "none", run |-> 0, inst |-> 0, result |-> <<>>]

\* The part of the state a pipeline callback reads and writes.
World == [videos |-> videos, dirs |-> dirs, files |-> files, runs |-> runs,
          tasks |-> tasks]

\* fs.readdir: the frame numbers of the files in directory d
FilesIn(f, d) == {x[2] : x \in {y \in DOMAIN f : y[1] = d}}

\* fs.writeFileSync / ffmpeg's output
WriteFile(f, name, img) ==
  [x \in DOMAIN f \cup {name} |-> IF x = name THEN img ELSE f[x]]

\* fs.unlink
RemoveFile(f, name) == [x \in DOMAIN f \ {name} |-> f[x]]

(* ------------------------ the per-video pipeline ----------------------- *)

\* processVideo after `await video.analyze(...)` returned: lines 125-135.
processVideoTry(video, frames, path) ==
  LET used == getTokensUsed(video)
  IN  [inputTokensUsed |-> used.inputTokens,
       outputTokensUsed |-> used.outputTokens,
       modelUsed |-> used.model,
       videoDuration |-> video.videoDuration,
       error |-> NoError,
       frames |-> frames,
       videoPath |-> path]

\* processVideo's catch block: lines 136-155.  `inst` is registry.get(videoPath).
processVideoCatch(vids, inst, errorMsg, path) ==
  LET used == IF inst /= 0 THEN getTokensUsed(vids[inst])
              ELSE [inputTokens |-> 0, outputTokens |-> 0, totalTokens |-> 0,
                    model |-> DEFAULT_MODEL]
  IN  [inputTokensUsed |-> used.inputTokens,
       outputTokensUsed |-> used.outputTokens,
       modelUsed |-> used.model,
       videoDuration |-> IF inst /= 0 THEN vids[inst].videoDuration ELSE 0,
       error |-> errorMsg,
       frames |-> <<>>,
       videoPath |-> path]

\* processVideo without its catch block: a failure rejects the promise.
processVideoNoCatch(vids, inst, regInst, out, path) ==
  IF out.kind = "ok"
     THEN [state |-> "fulfilled", value |-> processVideoTry(vids[inst], out.frames, path)]
     ELSE [state |-> "rejected",
           value |-> processVideoCatch(vids, regInst, out.error, path)]

\* The promise processVideo returns once `out` is known: the try block's result, or
\* the catch block's.  `inst` is the instance getOrCreate gave (0 when it threw) and
\* `regInst` is registry.get(videoPath) at that moment.
processVideo(vids, inst, regInst, out, path) ==
  IF out.kind = "ok"
     THEN [state |-> "fulfilled", value |-> processVideoTry(vids[inst], out.frames, path)]
     ELSE [state |-> "fulfilled",
           value |-> processVideoCatch(vids, regInst, out.error, path)]

\* A task of the batch whose processVideo promise has settled.
SettledTask(task, promise) ==
  [task EXCEPT !.pc = IF promise.state = "fulfilled" THEN "resolved" ELSE "failed",
               !.result = promise.value]

\* processVideo resumed by analyze's outcome.
processVideoSettled(w, r, out) ==
  LET i == w.runs[r].caller
      path == configs[i].videoPath
      promise == processVideo(w.videos, w.tasks[i].inst, registry[path], out, path)
  IN  [w EXCEPT !.tasks[i] = SettledTask(@, promise)]

\* analyze with a catch block that swallows the error and returns this.frames.
settleSwallowing(w, r, after) ==
  LET video == w.videos[w.runs[r].inst]
      out == [kind |-> "ok", frames |-> video.frames, error |-> NoError]
      w1 == [w EXCEPT !.runs[r].pc = "settled", !.runs[r].out = out,
                      !.runs[r].wdir = Cwd]
  IN  IF w.runs[r].caller = 0 THEN w1 ELSE processVideoSettled(w1, r, out)

\* analyze after `await this.cleanup()`: `return this.frames`, or the catch block's
\* throw; then the caller's continuation.
settle(w, r, after) ==
  LET video == w.videos[w.runs[r].inst]
      out == IF after.kind = "return"
                THEN [kind |-> "ok", frames |-> video.frames, error |-> NoError]
                ELSE [kind |-> "err", frames |-> <<>>,
                      error |-> Wrap("Failed to analyze video", after.error)]
      w1 == [w EXCEPT !.runs[r].pc = "settled", !.runs[r].out = out,
                      !.runs[r].wdir = Cwd]
  IN  IF w.runs[r].caller = 0 THEN w1 ELSE processVideoSettled(w1, r, out)

\* SemanticVideo.cleanup from the loop over the names readdir gave: unlink the next
\* one, or remove the directory and forget it.
cleanupLoop(w, r, names) ==
  LET v == w.runs[r].inst
      fd == w.videos[v].framesDir
  IN  IF names /= <<>>
         THEN [w EXCEPT !.runs[r].pc = "unlink",
                        !.runs[r].unl = <<fd, Head(names)>>,
                        !.runs[r].cfiles = Tail(names)]
      ELSE IF fd /= Cwd /\ fd \in w.dirs /\ FilesIn(w.files, fd) = {}
         THEN settle([w EXCEPT !.dirs = @ \ {fd}, !.videos[v].framesDir = Cwd],
                     r, w.runs[r].after)
      ELSE settle(w, r, w.runs[r].after)   \* rmdirSync threw: ignored

\* analyze with a catch block that empties this.frames before cleaning up.
cleanupForgetting(w, r, after) ==
  LET v == w.runs[r].inst
      fd == w.videos[v].framesDir
      w1 == IF after.kind = "throw" THEN [w EXCEPT !.videos[v].frames = <<>>] ELSE w
  IN  IF fd /= Cwd /\ fd \in w.dirs
         THEN [w1 EXCEPT !.runs[r].pc = "readdir", !.runs[r].cdir = fd,
                         !.runs[r].after = after]
         ELSE settle(w1, r, after)

\* SemanticVideo.cleanup up to its first await.
cleanup(w, r, after) ==
  LET fd == w.videos[w.runs[r].inst].framesDir
  IN  IF fd /= Cwd /\ fd \in w.dirs
         THEN [w EXCEPT !.runs[r].pc = "readdir", !.runs[r].cdir = fd,
                        !.runs[r].after = after]
         ELSE settle(w, r, after)

\* analyzeFrames lines 118-119: results.reduce((sum, r) => sum + r.inputTokens, 0),
\* and the same for the output tokens.
sumInputTokens(frameResults) ==
  SumSeq([i \in DOMAIN frameResults |-> frameResults[i].inputTokens])
sumOutputTokens(frameResults) ==
  SumSeq([i \in DOMAIN frameResults |-> frameResults[i].outputTokens])

\* analyze storing frames numbered by their 0-based index.
analysisResolvedZeroBased(w, r) ==
  LET run == w.runs[r]
      v == run.inst
      frames == [i \in 1..run.n |->
                   [frameNumber |-> i - 1,
                    timestamp |-> (w.videos[v].videoDuration \div run.n) * (i - 1),
                    description |-> run.res[i].content,
                    imageData |-> run.b64[i]]]
      w1 == [w EXCEPT !.videos[v].inputTokensUsed = sumInputTokens(run.res),
                      !.videos[v].outputTokensUsed = sumOutputTokens(run.res),
                      !.videos[v].modelUsed = run.model,
                      !.videos[v].frames = frames]
  IN  cleanup(w1, r, Return)

\* analyze lines 193-207, once analyzeFrames has returned.
analysisResolved(w, r) ==
  LET run == w.runs[r]
      v == run.inst
      totalInputTokens == sumInputTokens(run.res)
      totalOutputTokens == sumOutputTokens(run.res)
      frames == [i \in 1..run.n |->
                   [frameNumber |-> i,
                    timestamp |-> (w.videos[v].videoDuration \div run.n) * (i - 1),
                    description |-> run.res[i].content,
                    imageData |-> run.b64[i]]]
      w1 == [w EXCEPT !.videos[v].inputTokensUsed = totalInputTokens,
                      !.videos[v].outputTokensUsed = totalOutputTokens,
                      !.videos[v].modelUsed = run.model,
                      !.videos[v].frames = frames]
  IN  cleanup(w1, r, Return)

\* Promise.all over the frame promises: resolved when every one is.
AllOk(states) == \A i \in DOMAIN states : states[i] = "ok"

\* analyze lines 181-191, once extractFrames has returned: write the images back
\* into this.framesDir, then analyzeFrames up to its await.
extractionResolved(w, r) ==
  LET run == w.runs[r]
      v == run.inst
      tempDir == w.videos[v].framesDir
  IN  IF run.n > 0 /\ tempDir /= Cwd /\ tempDir \notin w.dirs
         THEN cleanup(w, r, Throw([prefix |-> <<>>, cause |-> "ENOENT", frame |-> 0]))
      ELSE LET written == [x \in DOMAIN w.files \cup {<<tempDir, i>> : i \in 1..run.n} |->
                             IF x[1] = tempDir /\ x[2] \in 1..run.n
                                THEN run.b64[x[2]] ELSE w.files[x]]
               w1 == [w EXCEPT !.files = written,
                               !.runs[r].pc = "analyze",
                              !.runs[r].wdir = tempDir,
                               !.runs[r].ana = [i \in 1..run.n |-> "pending"],
                               !.runs[r].sent = [i \in 1..run.n |-> written[<<tempDir, i>>]],
                               !.runs[r].usg = [i \in 1..run.n |-> NoUsage],
                               !.runs[r].res = [i \in 1..run.n |->
                                                  [content |-> <<>>, inputTokens |-> 0,
                                                   outputTokens |-> 0]]]
           IN  IF run.n = 0 THEN analysisResolved(w1, r) ELSE w1

(* --------------------------- pipeline actions -------------------------- *)

Apply(w) ==
  /\ videos' = w.videos
  /\ dirs' = w.dirs
  /\ files' = w.files
  /\ runs' = w.runs
  /\ tasks' = w.tasks

\* A wait for every promise of the set, as a fixed-size batch would be drained.
RaceReadyWhenAll(awaited) == \A j \in awaited : tasks[j].pc \in {"done", "rejected"}

\* Promise.race(executing) is settled as soon as one promise of the set is.
RaceReady(awaited) == \E j \in awaited : tasks[j].pc \in {"done", "rejected"}

\* A promise continuation of analyzeMultipleVideos is ready to run: the loop itself,
\* a .then or .finally callback, or an await whose promise has settled.  The event
\* loop runs these before it takes the next I/O callback.
MicrotaskPending ==
  \/ batch.pc = "loop"
  \/ \E i \in DOMAIN tasks : tasks[i].pc \in {"resolved", "thened", "failed"}
  \/ /\ batch.pc = "race"
     /\ RaceReady(batch.awaited)
  \/ /\ batch.pc = "all"
     /\ \/ \A j \in batch.awaited : tasks[j].pc = "done"
        \/ \E j \in batch.awaited : tasks[j].pc = "rejected"

PipelineFrame ==
  /\ ~MicrotaskPending
  /\ UNCHANGED <<maxConcurrency, maxFrameConcurrency, registry, stats, configs, batch,
                 quote, estimator, history, logger,
                 results, calls>>

RunIds == 1..Len(runs)

Failure(pre, cause, frame) == [prefix |-> pre, cause |-> cause, frame |-> frame]

\* Extraction through a pool: only the first maxFrameConcurrency tasks start.
startExtractionsPooled(n) ==
  [i \in 1..n |-> IF i <= maxFrameConcurrency THEN "running" ELSE "queued"]

\* timestamps.map(... this.extractSingleFrame(...)): lines 97-100 start every
\* extraction task.
startExtractions(n) == [i \in 1..n |-> "running"]

\* ffprobe answered: analyze line 177, then extractFrames lines 77-84 (a directory
\* name of its own; the run's number stands for it).
ProbeDone(r) ==
  /\ runs[r].pc = "probe"
  /\ LET v == runs[r].inst
     IN  Apply([World EXCEPT
                  !.videos[v].videoDuration = ProbedDuration(videos[v].videoPath),
                  !.videos[v].framesDir = r,
                  !.runs[r].pc = "mkdir"])
  /\ PipelineFrame

\* ffprobe failed: getVideoDuration rejects, analyze's catch block runs.
ProbeError(r) ==
  /\ runs[r].pc = "probe"
  /\ Apply(cleanup(World, r, Throw(Failure(<<>>, "Failed to get video duration", 0))))
  /\ PipelineFrame

\* mkdir finished: extractFrames lines 86-100 start one ffmpeg per timestamp.
MkdirDone(r) ==
  /\ runs[r].pc = "mkdir"
  /\ LET run == runs[r]
         v == run.inst
         w1 == [World EXCEPT
                  !.dirs = @ \cup {r},
                  !.runs[r].pc = "extract",
                  !.runs[r].ts = [i \in 1..run.n |->
                                    (i - 1) * (videos[v].videoDuration \div run.n)],
                  !.runs[r].ext = startExtractions(run.n),
                  !.runs[r].b64 = [i \in 1..run.n |-> NoImage]]
     IN  Apply(IF run.n = 0 THEN extractionResolved(w1, r) ELSE w1)
  /\ PipelineFrame

\* An extractSingleFrame promise rejected; Promise.all rejects with the first one.
extractionRejected(w, r, i, error) ==
  LET w1 == [w EXCEPT !.runs[r].ext[i] = "failed"]
  IN  IF w.runs[r].pc = "extract"
         THEN cleanup(w1, r, Throw(Wrap("Failed to extract frames", error)))
         ELSE w1

\* The ffmpeg process of frame i wrote its output file.
FfmpegWrite(r, i) ==
  /\ i \in DOMAIN runs[r].ext
  /\ runs[r].ext[i] = "running"
  /\ r \in dirs
  /\ LET run == runs[r]
         img == Image(videos[run.inst].videoPath, run.ts[i], run.quality)
     IN  Apply([World EXCEPT !.files = WriteFile(@, <<r, i>>, img),
                             !.runs[r].ext[i] = "written"])
  /\ PipelineFrame

\* The ffmpeg process of frame i failed: the "error" handler rejects.
FfmpegError(r, i) ==
  /\ i \in DOMAIN runs[r].ext
  /\ runs[r].ext[i] = "running"
  /\ Apply(extractionRejected(World, r, i, Failure(<<>>, "Failed to extract frame", i)))
  /\ PipelineFrame

\* The "end" handler of frame i: readFileSync of the output file.
FfmpegEnd(r, i) ==
  /\ i \in DOMAIN runs[r].ext
  /\ runs[r].ext[i] = "written"
  /\ IF <<r, i>> \in DOMAIN files
        THEN LET w1 == [World EXCEPT !.runs[r].ext[i] = "ok",
                                     !.runs[r].b64[i] = IF runs[r].pc = "extract"
                                                           THEN files[<<r, i>>] ELSE @]
             IN  Apply(IF runs[r].pc = "extract" /\ AllOk(w1.runs[r].ext)
                          THEN extractionResolved(w1, r) ELSE w1)
        ELSE Apply(extractionRejected(World, r, i, Failure(<<>>, "ENOENT", i)))
  /\ PipelineFrame

\* analyzeFrame lines 59-66: the inference service answered request i.
\* response.usage?.prompt_tokens || 0 and response.usage?.completion_tokens || 0
promptTokensOrZero(usage) == IF usage = NoUsage THEN 0 ELSE usage.prompt_tokens
completionTokensOrZero(usage) == IF usage = NoUsage THEN 0 ELSE usage.completion_tokens

analyzeFrameResult(img, usage) ==
  [content |-> Describe(img),
   inputTokens |-> promptTokensOrZero(usage),
   outputTokens |-> completionTokensOrZero(usage)]

ApiResponse(r, i, usage) ==
  /\ i \in DOMAIN runs[r].ana
  /\ runs[r].ana[i] = "pending"
  /\ LET w1 == [World EXCEPT !.runs[r].ana[i] = "ok",
                             !.runs[r].usg[i] = IF runs[r].pc = "analyze"
                                                   THEN usage ELSE @,
                             !.runs[r].res[i] = IF runs[r].pc = "analyze"
                                                   THEN analyzeFrameResult(runs[r].sent[i], usage)
                                                   ELSE @]
     IN  Apply(IF runs[r].pc = "analyze" /\ AllOk(w1.runs[r].ana)
                  THEN analysisResolved(w1, r) ELSE w1)
  /\ PipelineFrame

\* The error the inference service answers request i with, when it fails it.
RequestFault(i) == IF i % 2 = 1 THEN "rate limit" ELSE "timeout"

\* A frame error named by the position in the array as it is.
frameErrorZeroBased(index, error) ==
  [Wrap("Frame failed", error) EXCEPT !.frame = index]

\* analyzeFrames lines 109-112: `Frame ${index + 1} failed: ${errorMsg}`.
frameError(index, error) ==
  [Wrap("Frame failed", error) EXCEPT !.frame = index + 1]

\* Request i failed: analyzeFrames line 111 rethrows, Promise.all rejects.
ApiError(r, i) ==
  /\ i \in DOMAIN runs[r].ana
  /\ runs[r].ana[i] = "pending"
  /\ LET w1 == [World EXCEPT !.runs[r].ana[i] = "failed"]
     IN  Apply(IF runs[r].pc = "analyze"
                  THEN cleanup(w1, r, Throw(frameError(i - 1,
                                                       Failure(<<>>, RequestFault(i), 0))))
                  ELSE w1)
  /\ PipelineFrame

\* cleanup: readdir answered (or failed, the directory being gone).
ReaddirDone(r) ==
  /\ runs[r].pc = "readdir"
  /\ IF runs[r].cdir \in dirs
        THEN Apply(cleanupLoop(World, r, SortedSeq(FilesIn(files, runs[r].cdir))))
        ELSE Apply(settle(World, r, runs[r].after))
  /\ PipelineFrame

\* cleanup: unlink answered (or failed, the file being gone).
UnlinkDone(r) ==
  /\ runs[r].pc = "unlink"
  /\ IF runs[r].unl \in DOMAIN files
        THEN Apply(cleanupLoop([World EXCEPT !.files = RemoveFile(@, runs[r].unl)],
                               r, runs[r].cfiles))
        ELSE Apply(settle(World, r, runs[r].after))
  /\ PipelineFrame

Pipeline ==
  \/ \E r \in RunIds : ProbeDone(r)
  \/ \E r \in RunIds : ProbeError(r)
  \/ \E r \in RunIds : MkdirDone(r)
  \/ \E r \in RunIds : \E i \in 1..runs[r].n : FfmpegWrite(r, i)
  \/ \E r \in RunIds : \E i \in 1..runs[r].n : FfmpegError(r, i)
  \/ \E r \in RunIds : \E i \in 1..runs[r].n : FfmpegEnd(r, i)
  \/ \E r \in RunIds : \E i \in 1..runs[r].n, usage \in Usages : ApiResponse(r, i, usage)
  \/ \E r \in RunIds : \E i \in 1..runs[r].n : ApiError(r, i)
  \/ \E r \in RunIds : ReaddirDone(r)
  \/ \E r \in RunIds : UnlinkDone(r)

(* ------------------------------ the client ----------------------------- *)

\* A numPartitions the config does not give: `numPartitions?: number`.
NotGiven == -1

\* config.numPartitions || 10, config.quality || 10, config.model || DEFAULT_MODEL
OrPartitions(n) == IF n = NotGiven \/ n = 0 THEN DefaultPartitions ELSE n
OrQuality(q) == IF q = 0 THEN DefaultQuality ELSE q
OrModel(m) == IF m = "" THEN DEFAULT_MODEL ELSE m

\* create that leaves an entry the path already has in place.
createKeepingFirst(reg, vids, p) ==
  IF FileExists(p)
     THEN [threw |-> FALSE, inst |-> Len(vids) + 1,
           registry |-> IF reg[p] /= 0 THEN reg ELSE [reg EXCEPT ![p] = Len(vids) + 1],
           videos |-> Append(vids, NewVideo(p))]
     ELSE [threw |-> TRUE, inst |-> 0, registry |-> reg, videos |-> vids]

\* VideoRegistry.create: a new SemanticVideo, whose constructor throws when the
\* file does not exist, set as the entry of the path.
create(reg, vids, p) ==
  IF FileExists(p)
     THEN [threw |-> FALSE, inst |-> Len(vids) + 1,
           registry |-> [reg EXCEPT ![p] = Len(vids) + 1],
           videos |-> Append(vids, NewVideo(p))]
     ELSE [threw |-> TRUE, inst |-> 0, registry |-> reg, videos |-> vids]

\* VideoRegistry.get: the entry of the path, 0 for undefined.
get(reg, p) == reg[p]

\* remove that empties the map.
removeEvery(reg, p) ==
  [value |-> reg[p] /= 0, registry |-> [q \in DOMAIN reg |-> 0]]

\* VideoRegistry.remove: Map.delete, true when there was an entry.
remove(reg, p) ==
  [value |-> reg[p] /= 0, registry |-> [reg EXCEPT ![p] = 0]]

\* VideoRegistry.clear
clear(reg) == [p \in DOMAIN reg |-> 0]

\* VideoRegistry.count: the size of the map.
count(reg) == Cardinality({p \in DOMAIN reg : reg[p] /= 0})

\* getOrCreate that constructs an instance whatever the map holds.
getOrCreateAnew(reg, vids, p) == create(reg, vids, p)

\* getOrCreate with a constructor that does not look for the file.
getOrCreateUnchecked(reg, vids, p) ==
  IF reg[p] /= 0
     THEN [threw |-> FALSE, inst |-> reg[p], registry |-> reg, videos |-> vids]
     ELSE [threw |-> FALSE, inst |-> Len(vids) + 1,
           registry |-> [reg EXCEPT ![p] = Len(vids) + 1],
           videos |-> Append(vids, NewVideo(p))]

\* VideoRegistry.getOrCreate: the entry for the path, or a new SemanticVideo, whose
\* constructor throws when the file does not exist.
getOrCreate(reg, vids, p) ==
  IF reg[p] /= 0
     THEN [threw |-> FALSE, inst |-> reg[p], registry |-> reg, videos |-> vids]
  ELSE IF FileExists(p)
     THEN [threw |-> FALSE, inst |-> Len(vids) + 1,
           registry |-> [reg EXCEPT ![p] = Len(vids) + 1],
           videos |-> Append(vids, NewVideo(p))]
  ELSE [threw |-> TRUE, inst |-> 0, registry |-> reg, videos |-> vids]

\* StatsTracker.recordAnalysis throws what calculateCost, its last statement, throws.
recordAnalysisThrows(model) == calculateCostThrows(model)

\* StatsTracker.recordAnalysis: the token and call totals are added to first, lines
\* 39-40, and the cost last, line 43, which a throw of calculateCost leaves as it was.
recordAnalysis(st, inputTokens, outputTokens, frameCount, model) ==
  [totalTokensUsed |-> st.totalTokensUsed + (inputTokens + outputTokens),
   totalApiCalls |-> st.totalApiCalls + frameCount,
   totalCostIncurred |->
     IF calculateCostThrows(model) THEN st.totalCostIncurred
     ELSE st.totalCostIncurred + calculateCost(inputTokens, outputTokens, model, FALSE)]

\* reset that leaves the cost as it is.
resetCounts(st) ==
  [totalTokensUsed |-> 0, totalCostIncurred |-> st.totalCostIncurred, totalApiCalls |-> 0]

\* StatsTracker.reset
reset(st) == [totalTokensUsed |-> 0, totalCostIncurred |-> 0, totalApiCalls |-> 0]

\* StatsTracker's getters tokens, cost and apiCalls.
tokens(st) == st.totalTokensUsed
cost(st) == st.totalCostIncurred
apiCalls(st) == st.totalApiCalls

\* SemanticVideo.getFramesCount and getDuration.
getFramesCount(video) == Len(video.frames)
getDuration(video) == video.videoDuration

\* The quotient a / b of two numbers that are integers, as JavaScript computes it:
\* a number (kept here as the fraction), or Infinity or NaN when b is 0.
Divide(a, b) ==
  IF b /= 0 THEN [kind |-> "number", num |-> a, den |-> b]
  ELSE IF a = 0 THEN [kind |-> "NaN", num |-> 0, den |-> 0]
  ELSE [kind |-> "Infinity", num |-> a, den |-> 0]

\* The literal 0 where a quotient may stand.
Zero == [kind |-> "number", num |-> 0, den |-> 1]

\* getStats with its three quotients computed whatever the divisor.
getStatsUnguarded(st, iterated) ==
  LET totalVideos == Len(iterated)
      totalFrames == SumSeq([i \in DOMAIN iterated |-> getFramesCount(iterated[i])])
      totalDuration == SumSeq([i \in DOMAIN iterated |-> getDuration(iterated[i])])
  IN  [totalVideos |-> totalVideos,
       totalFrames |-> totalFrames,
       totalDuration |-> totalDuration,
       averageFramesPerVideo |-> Divide(totalFrames, totalVideos),
       totalTokensUsed |-> st.totalTokensUsed,
       totalCostIncurred |-> st.totalCostIncurred,
       totalApiCalls |-> st.totalApiCalls,
       averageTokensPerVideo |-> Divide(st.totalTokensUsed, totalVideos),
       averageTokensPerFrame |-> Divide(st.totalTokensUsed, totalFrames)]

\* StatsTracker.getStats, lines 51-73; `iterated` is the videos the iterator hands
\* to the callback, in its order.
getStats(st, iterated) ==
  LET totalVideos == Len(iterated)
      totalFrames == SumSeq([i \in DOMAIN iterated |-> getFramesCount(iterated[i])])
      totalDuration == SumSeq([i \in DOMAIN iterated |-> getDuration(iterated[i])])
  IN  [totalVideos |-> totalVideos,
       totalFrames |-> totalFrames,
       totalDuration |-> totalDuration,
       averageFramesPerVideo |->
          IF totalVideos > 0 THEN Divide(totalFrames, totalVideos) ELSE Zero,
       totalTokensUsed |-> st.totalTokensUsed,
       totalCostIncurred |-> st.totalCostIncurred,
       totalApiCalls |-> st.totalApiCalls,
       averageTokensPerVideo |->
          IF totalVideos > 0 THEN Divide(st.totalTokensUsed, totalVideos) ELSE Zero,
       averageTokensPerFrame |->
          IF totalFrames > 0 THEN Divide(st.totalTokensUsed, totalFrames) ELSE Zero]

\* SemanticVideoClient.analyzeVideo: getOrCreate, then analyze up to its first await.
AnalyzeVideo(p, n, q, m) ==
  /\ batch.pc = "idle"
  /\ LET g == getOrCreate(registry, videos, p)
     IN  /\ registry' = g.registry
         /\ videos' = g.videos
         /\ IF g.threw
               THEN /\ runs' = runs
                    /\ calls' = Append(calls, [videoPath |-> p, run |-> 0])
               ELSE /\ runs' = Append(runs, NewRun(g.inst, n, OrQuality(q), OrModel(m), 0))
                    /\ calls' = Append(calls, [videoPath |-> p, run |-> Len(runs) + 1])
  /\ UNCHANGED <<maxConcurrency, maxFrameConcurrency, stats, dirs, files, configs,
                 quote, estimator, history, logger,
                 batch, tasks, results>>

(* the logger *)

\* A Logger as its constructor leaves it: `enabled: options.enabled ?? false`.
NewLogger(enabled) ==
  [enabled |-> enabled, videoProgress |-> {}, totalVideos |-> 0, completedVideos |-> 0,
   totalInputTokens |-> 0, totalOutputTokens |-> 0, totalCost |-> 0,
   batchResults |-> <<>>]

\* Logger.setOptions
setOptions(lg, enabled) == [lg EXCEPT !.enabled = enabled]

\* Logger.initBatch, lines 107-134: nothing when the logger is not enabled.
initBatch(lg, videoCount) ==
  IF ~lg.enabled THEN lg
  ELSE [lg EXCEPT !.totalVideos = videoCount, !.completedVideos = 0,
                  !.videoProgress = {}, !.totalInputTokens = 0,
                  !.totalOutputTokens = 0, !.totalCost = 0, !.batchResults = <<>>]

\* Logger.updateVideo: the path's progress entry set.
updateVideo(lg, videoPath) ==
  IF ~lg.enabled THEN lg
  ELSE [lg EXCEPT !.videoProgress = @ \cup {videoPath}]

\* The rates of completeVideo's catch block, multiplied by 1000.
FallbackInputPrice == 150
FallbackOutputPrice == 600

\* completeVideo's cost, lines 193-207: the model's rates, or the fallback rates
\* when reading a rate of getModelPricing's result throws.
completeVideoCost(inputTokens, outputTokens, model) ==
  IF getModelPricing(model) = Undefined
     THEN inputTokens * FallbackInputPrice + outputTokens * FallbackOutputPrice
     ELSE inputTokens * getModelPricing(model).inputCostPerMillion
          + outputTokens * getModelPricing(model).outputCostPerMillion

\* Logger.completeVideo, lines 172-231: nothing when the logger is not enabled or
\* has no progress entry of the path.
completeVideo(lg, videoPath, frames, inputTokens, outputTokens, model) ==
  IF ~lg.enabled \/ videoPath \notin lg.videoProgress THEN lg
  ELSE [lg EXCEPT
          !.completedVideos = @ + 1,
          !.totalInputTokens = @ + inputTokens,
          !.totalOutputTokens = @ + outputTokens,
          !.totalCost = @ + completeVideoCost(inputTokens, outputTokens, model),
          !.batchResults = Append(@,
             [videoName |-> videoPath, model |-> model, frames |-> frames,
              inputTokens |-> inputTokens, outputTokens |-> outputTokens,
              cost |-> completeVideoCost(inputTokens, outputTokens, model)])]

\* Logger.failVideo
failVideo(lg, videoPath) ==
  IF ~lg.enabled THEN lg ELSE [lg EXCEPT !.completedVideos = @ + 1]

\* The table completeBatch prints: a row per stored result and the totals row.
NoReport == [printed |-> FALSE]
BatchReport(lg) ==
  [printed |-> TRUE, rows |-> lg.batchResults,
   totalInputTokens |-> lg.totalInputTokens,
   totalOutputTokens |-> lg.totalOutputTokens, totalCost |-> lg.totalCost]

\* Logger.completeBatch, lines 266-315: the table printed, the stored results cleared.
completeBatch(lg) ==
  IF ~lg.enabled THEN [report |-> NoReport, logger |-> lg]
  ELSE [report |-> BatchReport(lg), logger |-> [lg EXCEPT !.batchResults = <<>>]]

\* Logger.reset, lines 346-350.
loggerReset(lg) ==
  [lg EXCEPT !.videoProgress = {}, !.totalVideos = 0, !.completedVideos = 0]

(* analyzeMultipleVideos *)

\* The wait taken one promise too late.
ShouldWaitLate(size, limit) == size > limit

\* `if (executing.size >= this.maxConcurrency) await Promise.race(executing)`
ShouldWait(size, limit) == size >= limit

\* One pass of the for loop, lines 163-182: processVideo up to its first await,
\* the promise added to `executing`, and the wait when the limit is reached.
BatchLoop ==
  /\ batch.pc = "loop"
  /\ batch.next <= Len(configs)
  /\ LET i == batch.next
         config == configs[i]
         p == config.videoPath
         g == getOrCreate(registry, videos, p)
         executing == batch.executing \cup {i}
         notFound == [kind |-> "err", frames |-> <<>>,
                      error |-> Failure(<<>>, "Video file not found", 0)]
     IN  /\ registry' = g.registry
         /\ videos' = g.videos
         /\ IF g.threw
               THEN /\ runs' = runs
                    /\ tasks' = [tasks EXCEPT ![i] =
                                   SettledTask(@, processVideo(videos, 0, registry[p],
                                                               notFound, p))]
               ELSE /\ runs' = Append(runs, NewRun(g.inst, OrPartitions(config.numPartitions),
                                                   OrQuality(config.quality),
                                                   OrModel(config.model), i))
                    /\ tasks' = [tasks EXCEPT ![i] = [pc |-> "running", run |-> Len(runs) + 1,
                                                      inst |-> g.inst, result |-> <<>>]]
         /\ batch' = [batch EXCEPT
                        !.next = i + 1,
                        !.executing = executing,
                        !.pc = IF ShouldWait(Cardinality(executing), maxConcurrency)
                                  THEN "race" ELSE "loop",
                        !.awaited = IF ShouldWait(Cardinality(executing), maxConcurrency)
                                       THEN executing ELSE {}]
  /\ UNCHANGED <<maxConcurrency, maxFrameConcurrency, stats, dirs, files, configs,
                 quote, estimator, history, logger,
                 results, calls>>

BatchFrame ==
  UNCHANGED <<maxConcurrency, maxFrameConcurrency, registry, videos, dirs, files,
              quote, estimator, history, logger,
              runs, configs, calls>>

\* Only the successful results kept.
pushResultIfOk(res, result) == IF Truthy(result.error) THEN res ELSE Append(res, result)

\* results.push(result) of the .then callback: lines 164-165.
pushResult(res, result) == Append(res, result)

\* Every result recorded, failed or not.
shouldRecordAlways(result) == TRUE

\* `if (!result.error)` of the .then callback: line 166.
shouldRecord(result) == ~Truthy(result.error)

\* The .then callback of a video's promise: lines 164-173.
ThenCallback(i) ==
  /\ tasks[i].pc = "resolved"
  /\ LET result == tasks[i].result
     IN  /\ results' = pushResult(results, result)
         /\ stats' = IF shouldRecord(result)
                        THEN recordAnalysis(stats, result.inputTokensUsed,
                                            result.outputTokensUsed, Len(result.frames),
                                            result.modelUsed)
                        ELSE stats
  /\ tasks' = [tasks EXCEPT ![i].pc = "thened"]
  /\ UNCHANGED batch
  /\ BatchFrame

\* The .finally callback: executing.delete(promise), lines 174-176.  It settles the
\* promise the loop holds: fulfilled, or rejected when processVideo rejected.
FinallyCallback(i) ==
  /\ tasks[i].pc \in {"thened", "failed"}
  /\ tasks' = [tasks EXCEPT ![i].pc = IF @ = "thened" THEN "done" ELSE "rejected"]
  /\ batch' = [batch EXCEPT !.executing = @ \ {i}]
  /\ UNCHANGED <<stats, results>>
  /\ BatchFrame

\* `await Promise.race(executing)` resumes with the first promise to settle.
RaceSettled ==
  /\ batch.pc = "race"
  /\ RaceReady(batch.awaited)
  /\ \E j \in batch.awaited :
        /\ tasks[j].pc \in {"done", "rejected"}
        /\ batch' = [batch EXCEPT !.pc = IF tasks[j].pc = "done" THEN "loop" ELSE "rejected",
                                  !.awaited = {}]
  /\ UNCHANGED <<stats, results, tasks>>
  /\ BatchFrame

\* The loop is over: `await Promise.all(Array.from(executing))`, line 185.
BatchAwaitAll ==
  /\ batch.pc = "loop"
  /\ batch.next > Len(configs)
  /\ batch' = [batch EXCEPT !.pc = "all", !.awaited = batch.executing]
  /\ UNCHANGED <<stats, results, tasks>>
  /\ BatchFrame

\* Promise.all resumes when every promise is fulfilled (lines 187-193: the call
\* returns `results`), or as soon as one is rejected.
BatchReturn ==
  /\ batch.pc = "all"
  /\ \/ \A j \in batch.awaited : tasks[j].pc = "done"
     \/ \E j \in batch.awaited : tasks[j].pc = "rejected"
  /\ batch' = [batch EXCEPT !.pc = IF \A j \in batch.awaited : tasks[j].pc = "done"
                                      THEN "returned" ELSE "rejected",
                            !.awaited = {}]
  /\ UNCHANGED <<stats, results, tasks>>
  /\ BatchFrame

Batch ==
  \/ BatchLoop
  \/ BatchAwaitAll
  \/ RaceSettled
  \/ BatchReturn
  \/ \E i \in 1..Len(configs) : ThenCallback(i)
  \/ \E i \in 1..Len(configs) : FinallyCallback(i)

(* --------------------------- specifications --------------------------- *)

(* ----------------------------- the estimator --------------------------- *)

\* estimateMultipleVideos not called.
NoMulti ==
  [pc |-> "idle", configs |-> <<>>, next |-> 1, videos |-> <<>>, totalTokens |-> 0,
   totalCost |-> 0, warned |-> <<>>]

\* A TokenEstimator nobody has called: no scratch directory, no sample frame.
NoEstimator == [dir |-> FALSE, sample |-> NoImage, runs |-> <<>>, multi |-> NoMulti]

\* DEFAULT_PROMPT.length
DefaultPromptLength == 205

\* The frame ffmpeg takes from second 1 of a video, and the size sharp reports for
\* it at the default scale (720 pixels high).
SampleFrame(p) == <<p, 1>>
SampleSize(img) == IF img[1] = "a.mp4" THEN <<1280, 720>> ELSE <<960, 720>>

\* What the tokenizer does with the default prompt for a model: it has an encoding
\* for some models and none for the others.
PromptTokenizer(model) ==
  IF model = "gpt-4.1" THEN [kind |-> "ok", tokens |-> 40]
                       ELSE [kind |-> "unavailable", tokens |-> 0]

\* estimateFrameTokens, for an image of the given size.
estimateFrameTokens(size, model) ==
  LET textTokens == countTextTokens(DefaultPromptLength, PromptTokenizer(model)).value
      imageTokens == countImageTokens(size[1], size[2], getImageTokenMultiplier(model))
      totalTokens == textTokens + imageTokens
  IN  [textTokens |-> textTokens, imageTokens |-> imageTokens,
       totalTokens |-> totalTokens,
       estimatedCost |-> calculateCost(totalTokens, 100, model, FALSE),
       model |-> model]

\* estimateFramesTokens with a total whose cost is the first frame's.
estimateFramesTokensCostOfOne(n, size, model) ==
  LET firstFrameEstimate == estimateFrameTokens(size, model)
  IN  [perFrame |-> firstFrameEstimate,
       total |-> [textTokens |-> firstFrameEstimate.textTokens * n,
                  imageTokens |-> firstFrameEstimate.imageTokens * n,
                  totalTokens |-> firstFrameEstimate.totalTokens * n,
                  estimatedCost |-> firstFrameEstimate.estimatedCost,
                  model |-> model],
       frameCount |-> n]

\* estimateFramesTokens for n paths of one image: the first frame's estimate, and
\* each of its fields times imagePaths.length.
estimateFramesTokens(n, size, model) ==
  LET firstFrameEstimate == estimateFrameTokens(size, model)
  IN  [perFrame |-> firstFrameEstimate,
       total |-> [textTokens |-> firstFrameEstimate.textTokens * n,
                  imageTokens |-> firstFrameEstimate.imageTokens * n,
                  totalTokens |-> firstFrameEstimate.totalTokens * n,
                  estimatedCost |-> firstFrameEstimate.estimatedCost * n,
                  model |-> model],
       frameCount |-> n]

NoEstimate == [videoPath |-> "", numPartitions |-> 0, perFrame |-> <<>>,
               total |-> <<>>, model |-> ""]

\* An estimateVideo call past its existsSync check.
NewEstimate(p, n, model, caller, pc) ==
  [pc |-> pc, videoPath |-> p, numPartitions |-> n, model |-> model,
   caller |-> caller,       \* 0: called directly; 1: by estimateMultipleVideos
   measured |-> NoImage,    \* the image sharp read
   estimate |-> NoEstimate, \* estimateFramesTokens' result
   error |-> NoError,       \* what the catch block caught
   out |-> [kind |-> "", estimate |-> NoEstimate, error |-> NoError]]

\* estimateVideo's throw before its try block, lines 50-52.
NotFound ==
  [kind |-> "err", estimate |-> NoEstimate,
   error |-> Failure(<<>>, "Video file not found", 0)]

\* estimateMultipleVideos with a loop body that lets an error of estimateVideo out.
RECURSIVE multiSettledNoCatch(_, _)

\* estimateMultipleVideos, lines 129-148: from the top of the loop to the first
\* await that has to wait, or to the return; and the loop body after an
\* estimateVideo has settled.
RECURSIVE multiNext(_)
RECURSIVE multiSettled(_, _)
multiNext(s) ==
  IF s.multi.next > Len(s.multi.configs)
     THEN [s EXCEPT !.multi.pc = "returned"]
     ELSE LET config == s.multi.configs[s.multi.next]
              n == IF config.numPartitions = 0 THEN 10 ELSE config.numPartitions
              model == IF config.model = "" THEN DEFAULT_MODEL ELSE config.model
          IN  IF ~FileExists(config.videoPath)
                 THEN multiSettled(
                        [s EXCEPT !.runs = Append(@,
                           [NewEstimate(config.videoPath, n, model, 1, "failed")
                              EXCEPT !.out = NotFound])],
                        NotFound)
                 ELSE [s EXCEPT !.runs = Append(@, NewEstimate(config.videoPath, n, model, 1,
                                                   IF s.dir THEN "ffmpeg" ELSE "mkdir"))]
multiSettledNoCatch(s, out) ==
  IF out.kind = "ok"
     THEN multiNext([s EXCEPT !.multi.videos = Append(@, out.estimate),
                              !.multi.totalTokens = @ + out.estimate.total.totalTokens,
                              !.multi.totalCost = @ + out.estimate.total.estimatedCost,
                              !.multi.next = @ + 1])
     ELSE [s EXCEPT !.multi.pc = "rejected"]
multiSettled(s, out) ==
  LET config == s.multi.configs[s.multi.next]
  IN  multiNext(
        IF out.kind = "ok"
           THEN [s EXCEPT !.multi.videos = Append(@, out.estimate),
                          !.multi.totalTokens = @ + out.estimate.total.totalTokens,
                          !.multi.totalCost = @ + out.estimate.total.estimatedCost,
                          !.multi.next = @ + 1]
           ELSE [s EXCEPT !.multi.warned = Append(@, config.videoPath),
                          !.multi.next = @ + 1])

\* estimateVideo returns or throws; its caller goes on.
settleEstimate(s, e, out) ==
  LET s1 == [s EXCEPT !.runs[e].pc = IF out.kind = "ok" THEN "done" ELSE "failed",
                      !.runs[e].out = out]
  IN  IF s.runs[e].caller = 1 THEN multiSettled(s1, out) ELSE s1

\* estimateVideo's catch block, lines 97-105, up to its first await.
estimateFailed(s, e, error) ==
  [s EXCEPT !.runs[e].pc = "unlinkErr", !.runs[e].error = error]

\* Limits below 1 that a caller may hand to the constructor.
LimitsBelowOne == {-1, 0}

\* new SemanticVideoClient(apiKey, options, maxConcurrency, maxFrameConcurrency)
InitClient(videoLimits, frameLimits) ==
  /\ \E k \in videoLimits : maxConcurrency = Max(1, k)
  /\ \E k \in frameLimits : maxFrameConcurrency = Max(1, k)
  /\ registry = [p \in Paths |-> 0]
  /\ videos = <<>>
  /\ stats = [totalTokensUsed |-> 0, totalCostIncurred |-> 0, totalApiCalls |-> 0]
  /\ dirs = {}
  /\ files = <<>>
  /\ runs = <<>>
  /\ results = <<>>
  /\ calls = <<>>
  /\ quote = NoQuote
  /\ estimator = NoEstimator
  /\ history = <<>>

Config(p, n, q, m) == [videoPath |-> p, numPartitions |-> n, quality |-> q, model |-> m]

\* The configs a caller puts in a batch: one frame of each path; b.mp4 with a model
\* of its own, the others with the default.
BatchConfigs ==
  {Config(p, 1, 0, IF p = "b.mp4" THEN "gpt-4.1" ELSE "") : p \in Paths}

RECURSIVE SeqsUpTo(_, _)
SeqsUpTo(S, n) ==
  IF n = 0 THEN {<<>>}
  ELSE LET shorter == SeqsUpTo(S, n - 1)
       IN  shorter \cup {Append(s, x) : s \in {t \in shorter : Len(t) = n - 1}, x \in S}

\* A client on which analyzeMultipleVideos has just been called.
InitBatch ==
  /\ InitClient(LimitsBelowOne \cup 1..MaxLimit, {DefaultFrameConcurrency})
  /\ logger = NewLogger(FALSE)
  /\ configs \in SeqsUpTo(BatchConfigs, MaxVideos)
  /\ tasks = [i \in 1..Len(configs) |-> NoTask]
  /\ batch = [pc |-> "loop", next |-> 1, executing |-> {}, awaited |-> {}]

\* The same, with a batch of at most MaxLiveVideos videos.
MaxLiveVideos == 2
InitLive ==
  /\ InitClient(LimitsBelowOne \cup 1..MaxLimit, {DefaultFrameConcurrency})
  /\ logger = NewLogger(FALSE)
  /\ configs \in SeqsUpTo(BatchConfigs, MaxLiveVideos)
  /\ tasks = [i \in 1..Len(configs) |-> NoTask]
  /\ batch = [pc |-> "loop", next |-> 1, executing |-> {}, awaited |-> {}]

\* A client whose caller makes analyzeVideo calls, overlapping or not.
InitCalls ==
  /\ InitClient({DefaultConcurrency}, LimitsBelowOne \cup 1..MaxFrameLimit)
  /\ logger = NewLogger(FALSE)
  /\ configs = <<>>
  /\ tasks = <<>>
  /\ batch = [pc |-> "idle", next |-> 1, executing |-> {}, awaited |-> {}]

\* The model identifiers a caller may pass: the table's keys, identifiers the table
\* does not have, and names every object has.
ModelIds ==
  DOMAIN VISION_MODELS \cup {"gpt-4o-mini", "my-model", "constructor", "toString"}

\* Token counts, in thousands.
TokenCounts == {1000 * k : k \in 0..MaxTokens}

\* A call of getModelPricing(modelId).
GetModelPricing(modelId) ==
  /\ quote' = [op |-> "getModelPricing", modelId |-> modelId, threw |-> FALSE,
               value |-> getModelPricing(modelId)]
  /\ UNCHANGED <<maxConcurrency, maxFrameConcurrency, registry, videos, stats, dirs,
                 files, runs, configs, batch, tasks, results, calls, estimator, history,
                 logger>>

\* A call of calculateCost(inputTokens, outputTokens, modelId, useCachedInput).
CalculateCost(inputTokens, outputTokens, modelId, useCachedInput) ==
  /\ quote' = [op |-> "calculateCost", modelId |-> modelId,
               inputTokens |-> inputTokens, outputTokens |-> outputTokens,
               useCachedInput |-> useCachedInput,
               threw |-> calculateCostThrows(modelId),
               value |-> IF calculateCostThrows(modelId) THEN 0
                         ELSE calculateCost(inputTokens, outputTokens, modelId,
                                            useCachedInput)]
  /\ UNCHANGED <<maxConcurrency, maxFrameConcurrency, registry, videos, stats, dirs,
                 files, runs, configs, batch, tasks, results, calls, estimator, history,
                 logger>>

NextCost ==
  \/ \E modelId \in ModelIds : GetModelPricing(modelId)
  \/ \E modelId \in ModelIds, inputTokens, outputTokens \in TokenCounts,
        useCachedInput \in BOOLEAN :
        CalculateCost(inputTokens, outputTokens, modelId, useCachedInput)

\* The models an estimate is asked for: the table's keys and unknown identifiers.
EstimateModels == ModelIds \ ObjectPrototypeKeys

\* A call of countImageTokens(imagePath, model), the image having the given size.
CountImageTokens(width, height, modelId) ==
  /\ quote' = [op |-> "countImageTokens", width |-> width, height |-> height,
               multiplier |-> getImageTokenMultiplier(modelId), threw |-> FALSE,
               value |-> countImageTokens(width, height,
                                          getImageTokenMultiplier(modelId))]
  /\ UNCHANGED <<maxConcurrency, maxFrameConcurrency, registry, videos, stats, dirs,
                 files, runs, configs, batch, tasks, results, calls, estimator, history,
                 logger>>

\* A call of countTextTokens(text, model), the text having the given length.
CountTextTokens(length, tokenizer) ==
  /\ quote' = [op |-> "countTextTokens", length |-> length, tokenizer |-> tokenizer,
               threw |-> countTextTokens(length, tokenizer).threw,
               value |-> countTextTokens(length, tokenizer).value]
  /\ UNCHANGED <<maxConcurrency, maxFrameConcurrency, registry, videos, stats, dirs,
                 files, runs, configs, batch, tasks, results, calls, estimator, history,
                 logger>>

NextTokens ==
  \/ \E length \in 0..MaxTextLen :
        \E tokenizer \in TokenizerOutcomes(length) : CountTextTokens(length, tokenizer)
  \/ \E size \in ImageSizes, modelId \in EstimateModels :
        CountImageTokens(size[1], size[2], modelId)

(* estimateVideo and estimateMultipleVideos *)

EstimatorFrame ==
  UNCHANGED <<maxConcurrency, maxFrameConcurrency, registry, videos, stats, dirs,
              files, runs, configs, batch, tasks, results, calls, quote, history,
              logger>>

EstimateIds == 1..Len(estimator.runs)

\* estimateVideo called directly (client.estimateVideoTokens), up to its first await.
EstimateVideo(p, n, model) ==
  /\ estimator' =
        IF ~FileExists(p)
           THEN [estimator EXCEPT !.runs = Append(@,
                   [NewEstimate(p, n, model, 0, "failed") EXCEPT !.out = NotFound])]
           ELSE [estimator EXCEPT !.runs = Append(@,
                   NewEstimate(p, n, model, 0,
                               IF estimator.dir THEN "ffmpeg" ELSE "mkdir"))]
  /\ EstimatorFrame

\* estimateMultipleVideos called, up to its first await.
EstimateMultipleVideos(videoConfigs) ==
  /\ estimator.multi.pc = "idle"
  /\ estimator' = multiNext([estimator EXCEPT !.multi.pc = "running",
                                              !.multi.configs = videoConfigs])
  /\ EstimatorFrame

\* mkdir of the scratch directory finished: line 61; then ffmpeg is started.
EstMkdirDone(e) ==
  /\ estimator.runs[e].pc = "mkdir"
  /\ estimator' = [estimator EXCEPT !.dir = TRUE, !.runs[e].pc = "ffmpeg"]
  /\ EstimatorFrame

\* ffmpeg wrote sample_frame.jpg and ended: lines 77, 83-84, up to the await of
\* sharp's metadata in countImageTokens.  imagePaths[0] of no paths is undefined.
EstFfmpegEnd(e) ==
  /\ estimator.runs[e].pc = "ffmpeg"
  /\ estimator.dir
  /\ LET s1 == [estimator EXCEPT !.sample = SampleFrame(estimator.runs[e].videoPath)]
     IN  estimator' =
           IF estimator.runs[e].numPartitions = 0
              THEN estimateFailed(s1, e, Failure(<<>>, "Failed to process image", 0))
              ELSE [s1 EXCEPT !.runs[e].pc = "measure"]
  /\ EstimatorFrame

\* ffmpeg failed: line 78.
EstFfmpegError(e) ==
  /\ estimator.runs[e].pc = "ffmpeg"
  /\ estimator' = estimateFailed(estimator, e, Failure(<<>>, "ffmpeg failed", 0))
  /\ EstimatorFrame

\* sharp read the image at sampleFramePath, or found none: the rest of
\* estimateFramesTokens, then line 87 up to its await.
EstMetadataDone(e) ==
  /\ estimator.runs[e].pc = "measure"
  /\ LET run == estimator.runs[e]
     IN  estimator' =
           IF estimator.sample = NoImage
              THEN estimateFailed(estimator, e,
                                  Failure(<<>>, "Failed to process image", 0))
              ELSE [estimator EXCEPT
                      !.runs[e].pc = "unlink",
                      !.runs[e].measured = estimator.sample,
                      !.runs[e].estimate =
                         LET estimate == estimateFramesTokens(run.numPartitions,
                                            SampleSize(estimator.sample), run.model)
                         IN  [videoPath |-> run.videoPath,
                              numPartitions |-> run.numPartitions,
                              perFrame |-> estimate.perFrame,
                              total |-> estimate.total,
                              model |-> run.model]]
  /\ EstimatorFrame

\* unlink(sampleFramePath) settled, its error swallowed: lines 87 and 100.
EstUnlinkDone(e) ==
  /\ estimator.runs[e].pc \in {"unlink", "unlinkErr"}
  /\ estimator' = [estimator EXCEPT
                     !.sample = NoImage,
                     !.runs[e].pc = IF @ = "unlink" THEN "rmdir" ELSE "rmdirErr"]
  /\ EstimatorFrame

\* rmdir(tempDir) settled, its error swallowed: lines 88-96 and 101-104.
EstRmdirDone(e) ==
  /\ estimator.runs[e].pc \in {"rmdir", "rmdirErr"}
  /\ LET run == estimator.runs[e]
         s1 == [estimator EXCEPT !.dir = IF estimator.sample = NoImage THEN FALSE ELSE @]
     IN  estimator' =
           IF run.pc = "rmdir"
              THEN settleEstimate(s1, e, [kind |-> "ok", estimate |-> run.estimate,
                                          error |-> NoError])
              ELSE settleEstimate(s1, e, [kind |-> "err", estimate |-> NoEstimate,
                                          error |-> Wrap("Failed to estimate tokens",
                                                         run.error)])
  /\ EstimatorFrame

\* The configs a caller hands to estimateMultipleVideos: each path, with the frame
\* count and model left out, or both given.
EstimateConfigs ==
  {[videoPath |-> p, numPartitions |-> o.numPartitions, model |-> o.model] :
     p \in Paths, o \in {[numPartitions |-> 0, model |-> ""],
                         [numPartitions |-> 2, model |-> "gpt-4.1"]}}

DirectEstimates == {e \in EstimateIds : estimator.runs[e].caller = 0}

NextEstimate ==
  \/ \E p \in Paths, n \in 0..MaxFrames :
        /\ Cardinality(DirectEstimates) < MaxEstimateCalls
        /\ EstimateVideo(p, n, DEFAULT_MODEL)
  \/ \E videoConfigs \in SeqsUpTo(EstimateConfigs, MaxEstimated) :
        EstimateMultipleVideos(videoConfigs)
  \/ \E e \in EstimateIds : EstMkdirDone(e)
  \/ \E e \in EstimateIds : EstFfmpegEnd(e)
  \/ \E e \in EstimateIds : EstFfmpegError(e)
  \/ \E e \in EstimateIds : EstMetadataDone(e)
  \/ \E e \in EstimateIds : EstUnlinkDone(e)
  \/ \E e \in EstimateIds : EstRmdirDone(e)

NextBatch == Batch \/ Pipeline

\* The environment answers a run's ffmpeg processes, and its requests, in the order
\* they were started.
ExtractionsInOrder(r, i) ==
  \A j \in 1..(i - 1) : j \in DOMAIN runs[r].ext => runs[r].ext[j] \in {"ok", "failed"}
RequestsInOrder(r, i) ==
  \A j \in 1..(i - 1) : j \in DOMAIN runs[r].ana => runs[r].ana[j] /= "pending"

PipelineInOrder ==
  \/ \E r \in RunIds : ProbeDone(r)
  \/ \E r \in RunIds : ProbeError(r)
  \/ \E r \in RunIds : MkdirDone(r)
  \/ \E r \in RunIds : \E i \in 1..runs[r].n :
        ExtractionsInOrder(r, i) /\ FfmpegWrite(r, i)
  \/ \E r \in RunIds : \E i \in 1..runs[r].n :
        ExtractionsInOrder(r, i) /\ FfmpegError(r, i)
  \/ \E r \in RunIds : \E i \in 1..runs[r].n :
        ExtractionsInOrder(r, i) /\ FfmpegEnd(r, i)
  \/ \E r \in RunIds : \E i \in 1..runs[r].n, usage \in Usages :
        RequestsInOrder(r, i) /\ ApiResponse(r, i, usage)
  \/ \E r \in RunIds : \E i \in 1..runs[r].n :
        RequestsInOrder(r, i) /\ ApiError(r, i)
  \/ \E r \in RunIds : ReaddirDone(r)
  \/ \E r \in RunIds : UnlinkDone(r)

NextInOrder == Batch \/ PipelineInOrder

\* The configs of a batch of one video: no frame count given, 0 frames, or 1.
FrameCountConfigs == {Config("a.mp4", n, 0, "") : n \in {NotGiven, 0, 1}}

\* analyzeMultipleVideos called with one config on a client of video limit 1.
InitOne ==
  /\ InitClient({1}, {DefaultFrameConcurrency})
  /\ logger = NewLogger(FALSE)
  /\ \E config \in FrameCountConfigs : configs = <<config>>
  /\ tasks = [i \in 1..Len(configs) |-> NoTask]
  /\ batch = [pc |-> "loop", next |-> 1, executing |-> {}, awaited |-> {}]

\* analyzeMultipleVideos on one video, its I/O answered in order.
SpecInOrder == InitOne /\ [][NextInOrder]_vars

NextCalls ==
  \/ \E p \in CallPaths, n \in 0..MaxFrames, o \in CallOptions :
        Len(calls) < MaxCalls /\ AnalyzeVideo(p, n, o.quality, o.model)
  \/ Pipeline

\* A caller that makes one analyzeVideo call, with the default options.
NextSolo ==
  \/ \E p \in CallPaths, n \in 0..MaxSoloFrames :
        Len(calls) = 0 /\ AnalyzeVideo(p, n, 0, "")
  \/ Pipeline

\* A caller that analyses two videos, each by a call for one frame and a call for
\* no frame, every call made at any time after the one before it.
CallScript ==
  <<[videoPath |-> "a.mp4", numPartitions |-> 1],
    [videoPath |-> "a.mp4", numPartitions |-> 0],
    [videoPath |-> "b.mp4", numPartitions |-> 1],
    [videoPath |-> "b.mp4", numPartitions |-> 0]>>

NextScript ==
  \/ /\ Len(calls) < Len(CallScript)
     /\ LET c == CallScript[Len(calls) + 1]
        IN  AnalyzeVideo(c.videoPath, c.numPartitions, 0, "")
  \/ Pipeline

(* the logger's caller *)

LoggerFrame ==
  UNCHANGED <<maxConcurrency, maxFrameConcurrency, registry, videos, stats, dirs, files,
              runs, configs, batch, tasks, results, calls, quote, estimator>>

\* A caller's call on the logger: what it left, and what it printed.
LoggerCall(op, args, after, report) ==
  /\ Len(history) < MaxLoggerCalls
  /\ logger' = after
  /\ history' = Append(history, [op |-> op, args |-> args, before |-> logger,
                                 after |-> after, report |-> report])
  /\ LoggerFrame

SetOptions(enabled) ==
  LoggerCall("setOptions", <<enabled>>, setOptions(logger, enabled), NoReport)

InitBatchCall(videoCount) ==
  LoggerCall("initBatch", <<videoCount>>, initBatch(logger, videoCount), NoReport)

UpdateVideo(videoPath) ==
  LoggerCall("updateVideo", <<videoPath>>, updateVideo(logger, videoPath), NoReport)

CompleteVideo(videoPath, frames, inputTokens, outputTokens, model) ==
  LoggerCall("completeVideo", <<videoPath, frames, inputTokens, outputTokens, model>>,
             completeVideo(logger, videoPath, frames, inputTokens, outputTokens, model),
             NoReport)

FailVideo(videoPath) ==
  LoggerCall("failVideo", <<videoPath>>, failVideo(logger, videoPath), NoReport)

CompleteBatch ==
  LoggerCall("completeBatch", <<>>, completeBatch(logger).logger,
             completeBatch(logger).report)

LoggerReset ==
  LoggerCall("reset", <<>>, loggerReset(logger), NoReport)

\* The videos of the batches the logger is told about.
LoggerPaths == {"a.mp4", "b.mp4"}

NextLogger ==
  \/ \E enabled \in BOOLEAN : SetOptions(enabled)
  \/ InitBatchCall(2)
  \/ \E p \in LoggerPaths : UpdateVideo(p)
  \/ \E p \in LoggerPaths, model \in {"gpt-4.1", "constructor"} :
        CompleteVideo(p, 1, 1000, 500, model)
  \/ \E p \in LoggerPaths : FailVideo(p)
  \/ CompleteBatch
  \/ LoggerReset

\* A logger constructed enabled or not.
InitLogger ==
  /\ InitClient({DefaultConcurrency}, {DefaultFrameConcurrency})
  /\ configs = <<>>
  /\ tasks = <<>>
  /\ batch = [pc |-> "idle", next |-> 1, executing |-> {}, awaited |-> {}]
  /\ \E enabled \in BOOLEAN : logger = NewLogger(enabled)

\* A caller of the logger.
SpecLogger == InitLogger /\ [][NextLogger]_vars

(* the tracker's caller *)

StatsFrame ==
  UNCHANGED <<maxConcurrency, maxFrameConcurrency, registry, videos, dirs, files, runs,
              configs, batch, tasks, results, calls, quote, estimator, logger>>

\* The models recordAnalysis is given: the default (the argument left out), a key
\* of the table, and a name every object has.
StatsModels == {DEFAULT_MODEL, "gpt-4.1", "constructor"}

RecordAnalysis(inputTokens, outputTokens, frameCount, model) ==
  /\ Len(history) < MaxStatsCalls
  /\ stats' = recordAnalysis(stats, inputTokens, outputTokens, frameCount, model)
  /\ history' = Append(history,
                       [op |-> "recordAnalysis", inputTokens |-> inputTokens,
                        outputTokens |-> outputTokens, frameCount |-> frameCount,
                        model |-> model, threw |-> recordAnalysisThrows(model),
                        before |-> stats,
                        after |-> recordAnalysis(stats, inputTokens, outputTokens,
                                                 frameCount, model)])
  /\ StatsFrame

Reset ==
  /\ Len(history) < MaxStatsCalls
  /\ stats' = reset(stats)
  /\ history' = Append(history, [op |-> "reset", threw |-> FALSE, before |-> stats,
                                 after |-> reset(stats)])
  /\ StatsFrame

NextStats ==
  \/ \E inputTokens, outputTokens \in {0, 1000}, frameCount \in {0, 1},
        model \in StatsModels :
        RecordAnalysis(inputTokens, outputTokens, frameCount, model)
  \/ Reset

\* A caller of the statistics tracker.
SpecStats == InitCalls /\ [][NextStats]_vars

\* A registered video whose latest successful analysis stored n frames.
AnalysedVideo(p, n) ==
  [NewVideo(p) EXCEPT
     !.frames = [i \in 1..n |-> [frameNumber |-> i, timestamp |-> (10 \div n) * (i - 1),
                                 description |-> "described", imageData |-> "b64"]],
     !.videoDuration = IF n = 0 THEN 0 ELSE 10]

\* What the registry may hold when getStats is called: nothing, videos without
\* frames, videos with frames.
RegistryContents ==
  {<<>>, <<AnalysedVideo("a.mp4", 0)>>, <<AnalysedVideo("a.mp4", 1)>>,
   <<AnalysedVideo("a.mp4", 0), AnalysedVideo("b.mp4", 0)>>,
   <<AnalysedVideo("a.mp4", 2), AnalysedVideo("b.mp4", 0)>>,
   <<AnalysedVideo("a.mp4", 2), AnalysedVideo("b.mp4", 1)>>}

\* getStats called with an iterator over the registry's videos.
GetStats(iterated) ==
  /\ Len(history) < MaxStatsCalls
  /\ history' = Append(history,
                       [op |-> "getStats", threw |-> FALSE, before |-> stats,
                        after |-> stats, iterated |-> iterated,
                        value |-> getStats(stats, iterated)])
  /\ UNCHANGED stats
  /\ StatsFrame

NextGetStats ==
  \/ \E inputTokens \in {0, 1000}, frameCount \in {0, 1} :
        RecordAnalysis(inputTokens, 0, frameCount, DEFAULT_MODEL)
  \/ Reset
  \/ \E iterated \in RegistryContents : GetStats(iterated)

\* A caller of the statistics tracker who also asks for the statistics.
SpecGetStats == InitCalls /\ [][NextGetStats]_vars

(* the registry's caller *)

RegistryFrame ==
  UNCHANGED <<maxConcurrency, maxFrameConcurrency, stats, dirs, files, runs, configs,
              batch, tasks, results, calls, quote, estimator, logger>>

\* What the caller saw of a call: its result, the map before it and after it, and
\* the number of instances constructed before it.
RegistryCall(op, p, threw, value, after) ==
  [op |-> op, videoPath |-> p, threw |-> threw, value |-> value,
   before |-> registry, after |-> after, constructed |-> Len(videos)]

Create(p) ==
  /\ Len(history) < MaxRegistryCalls
  /\ LET c == create(registry, videos, p)
     IN  /\ registry' = c.registry
         /\ videos' = c.videos
         /\ history' = Append(history, RegistryCall("create", p, c.threw, c.inst,
                                                    c.registry))
  /\ RegistryFrame

GetOrCreate(p) ==
  /\ Len(history) < MaxRegistryCalls
  /\ LET g == getOrCreate(registry, videos, p)
     IN  /\ registry' = g.registry
         /\ videos' = g.videos
         /\ history' = Append(history, RegistryCall("getOrCreate", p, g.threw, g.inst,
                                                    g.registry))
  /\ RegistryFrame

Remove(p) ==
  /\ Len(history) < MaxRegistryCalls
  /\ LET r == remove(registry, p)
     IN  /\ registry' = r.registry
         /\ history' = Append(history, RegistryCall("remove", p, FALSE, r.value,
                                                    r.registry))
  /\ videos' = videos
  /\ RegistryFrame

Clear ==
  /\ Len(history) < MaxRegistryCalls
  /\ registry' = clear(registry)
  /\ history' = Append(history, RegistryCall("clear", "", FALSE, 0, clear(registry)))
  /\ videos' = videos
  /\ RegistryFrame

NextRegistry ==
  \/ \E p \in Paths : Create(p)
  \/ \E p \in Paths : GetOrCreate(p)
  \/ \E p \in Paths : Remove(p)
  \/ Clear

\* A caller of the registry.
SpecRegistry == InitCalls /\ [][NextRegistry]_vars

\* A caller of the estimator: estimateMultipleVideos once, and estimateVideo
\* directly, at any time.
SpecEstimate == InitCalls /\ [][NextEstimate]_vars

\* A caller of the token counting functions.
SpecTokens == InitCalls /\ [][NextTokens]_vars

\* A caller of the pricing functions.
SpecCost == InitCalls /\ [][NextCost]_vars

\* analyzeMultipleVideos on a fresh client.
Spec == InitBatch /\ [][NextBatch]_vars

\* analyzeMultipleVideos on a fresh client, when the event loop runs every promise
\* continuation that is ready and the environment answers every I/O request: every
\* admitted pipeline settles.
SpecLive == InitLive /\ [][NextBatch]_vars /\ WF_vars(Batch) /\ WF_vars(Pipeline)

\* analyzeVideo calls on a fresh client.
SpecCalls == InitCalls /\ [][NextCalls]_vars

\* The scripted analyzeVideo calls on a fresh client.
SpecScript == InitCalls /\ [][NextScript]_vars

\* A single analyzeVideo call on a fresh client.
SpecSolo == InitCalls /\ [][NextSolo]_vars

(* ------------------------------- claims -------------------------------- *)

TaskIds == 1..Len(configs)

\* The video pipelines that have been started and have not settled.
InFlight == {i \in TaskIds : tasks[i].pc = "running"}

\* C1: during analyzeMultipleVideos with video-level limit K (clamped to at least
\* 1), the number of video pipelines started and not yet settled never exceeds K,
\* whatever the number of videos and the completion order.
C1_VideoLimit ==
  /\ maxConcurrency >= 1
  /\ Cardinality(InFlight) <= maxConcurrency
  /\ Cardinality({i \in TaskIds : tasks[i].pc \in {"running", "resolved", "thened", "failed"}})
       <= maxConcurrency

\* C1's case: the limit is reached while a further video is still queued.
C1_Witness ==
  /\ maxConcurrency = MaxLimit
  /\ Cardinality(InFlight) = maxConcurrency
  /\ batch.pc = "race"
  /\ batch.next <= Len(configs)

\* The pipeline of config i failed: registration threw, or analyze rejected.
PipelineFailed(i) ==
  /\ tasks[i].pc \in {"resolved", "thened", "done", "failed", "rejected"}
  /\ \/ tasks[i].run = 0
     \/ runs[tasks[i].run].out.kind = "err"

PipelineSucceeded(i) ==
  /\ tasks[i].pc \in {"resolved", "thened", "done"}
  /\ tasks[i].run /= 0
  /\ runs[tasks[i].run].out.kind = "ok"

\* The pipeline run r waits for an I/O callback that the environment will deliver.
RunWaitsForIO(r) ==
  \/ runs[r].pc \in {"probe", "mkdir", "readdir", "unlink"}
  \/ runs[r].pc = "extract" /\ \E i \in 1..runs[r].n : runs[r].ext[i] \in {"running", "written"}
  \/ runs[r].pc = "analyze" /\ \E i \in 1..runs[r].n : runs[r].ana[i] = "pending"

\* The batch call has returned, or it can go on: a continuation is ready, or a
\* pipeline it waits for is itself waiting for I/O.
BatchCanGoOn ==
  \/ batch.pc = "returned"
  \/ MicrotaskPending
  \/ \E i \in batch.awaited : tasks[i].pc = "running" /\ RunWaitsForIO(tasks[i].run)

\* C2: a failure of one video's pipeline is captured as that video's outcome: no
\* promise of the batch is ever rejected, the batch call never rejects, the call
\* is never stuck before it has returned, and when it returns every input video
\* has its outcome, a failed one carrying the error of its own failure.
C2_FailureIsolated ==
  /\ batch.pc /= "rejected"
  /\ \A i \in TaskIds : tasks[i].pc \notin {"failed", "rejected"}
  /\ \A i \in TaskIds :
        PipelineFailed(i) =>
           /\ Truthy(tasks[i].result.error)
           /\ tasks[i].result.videoPath = configs[i].videoPath
           /\ tasks[i].result.error =
                 IF tasks[i].run = 0
                    THEN Failure(<<>>, "Video file not found", 0)
                    ELSE runs[tasks[i].run].out.error
  /\ batch.pc = "returned" => \A i \in TaskIds : tasks[i].pc = "done"
  /\ BatchCanGoOn

\* C2's case: the batch has returned, one video failed and a later one succeeded.
C2_Witness ==
  /\ batch.pc = "returned"
  /\ \E i, j \in TaskIds :
        /\ i < j
        /\ PipelineFailed(i)
        /\ tasks[i].run /= 0
        /\ PipelineSucceeded(j)

CountPath(seq, p) == Cardinality({i \in DOMAIN seq : seq[i].videoPath = p})

\* C3: when analyzeMultipleVideos returns for M configs, the result list holds
\* exactly M outcomes, and each video path occurs in it as often as in the input.
C3_OneOutcomePerConfig ==
  batch.pc = "returned" =>
     /\ Len(results) = Len(configs)
     /\ \A p \in Paths : CountPath(results, p) = CountPath(configs, p)

\* C3's case: a returned batch whose outcomes are not in input order.
C3_Witness ==
  /\ batch.pc = "returned"
  /\ Len(results) = MaxVideos
  /\ \E i \in DOMAIN results : results[i].videoPath /= configs[i].videoPath

\* C4 as claimed: every outcome of a failed pipeline that analyzeMultipleVideos
\* returns has a non-empty error, no frames, and zero input and output tokens.
C4_FailedOutcomeIsZero ==
  batch.pc = "returned" =>
     \A i \in TaskIds :
        PipelineFailed(i) =>
           /\ Truthy(tasks[i].result.error)
           /\ tasks[i].result.frames = <<>>
           /\ tasks[i].result.inputTokensUsed = 0
           /\ tasks[i].result.outputTokensUsed = 0

\* The outcomes already handed to the .then callback whose pipeline succeeded.
Recorded == {i \in TaskIds : tasks[i].pc \in {"thened", "done"} /\ PipelineSucceeded(i)}

RECURSIVE SumOver(_, _)
SumOver(S, f) ==
  IF S = {} THEN 0
  ELSE LET x == CHOOSE y \in S : TRUE IN f[x] + SumOver(S \ {x}, f)

\* C5: the StatsTracker totals are exactly the sums, over the outcomes whose
\* pipeline succeeded, of their tokens, their cost and their frame count; a failed
\* pipeline adds nothing.
C5_StatsFromSuccesses ==
  /\ stats.totalTokensUsed =
       SumOver(Recorded, [i \in TaskIds |->
          tasks[i].result.inputTokensUsed + tasks[i].result.outputTokensUsed])
  /\ stats.totalApiCalls =
       SumOver(Recorded, [i \in TaskIds |-> Len(tasks[i].result.frames)])
  /\ stats.totalCostIncurred =
       SumOver(Recorded, [i \in TaskIds |->
          calculateCost(tasks[i].result.inputTokensUsed, tasks[i].result.outputTokensUsed,
                        tasks[i].result.modelUsed, FALSE)])

\* C5's case: a returned batch with a recorded success and a failed outcome that
\* carries tokens, none of which were added.
C5_Witness ==
  /\ batch.pc = "returned"
  /\ stats.totalTokensUsed > 0
  /\ \E i \in TaskIds : PipelineFailed(i) /\ tasks[i].result.inputTokensUsed > 0

(* claims about SemanticVideo.analyze, checked on analyzeVideo calls *)

Settled(r) == runs[r].pc = "settled"

FrameFailed(r) ==
  \/ \E i \in DOMAIN runs[r].ext : runs[r].ext[i] = "failed"
  \/ \E i \in DOMAIN runs[r].ana : runs[r].ana[i] = "failed"

\* C6: if the extraction or the analysis of any single frame fails, analyze
\* rejects and returns no frame list, never a list of the frames that succeeded.
C6_NoPartialList ==
  \A r \in RunIds :
     FrameFailed(r) =>
        /\ runs[r].out.kind /= "ok"
        /\ runs[r].out.frames = <<>>
        /\ Settled(r) => runs[r].out.kind = "err" /\ Truthy(runs[r].out.error)

\* C6's case: a run of two frames has rejected after one frame was analysed and
\* the other failed.
C6_Witness ==
  \E r \in RunIds :
     /\ Settled(r)
     /\ runs[r].n = MaxFrames
     /\ \E i, j \in DOMAIN runs[r].ana :
           runs[r].ana[i] = "ok" /\ runs[r].ana[j] = "failed"

PathOf(r) == videos[runs[r].inst].videoPath

\* C7 as claimed: a call of analyze for N frames that returns, returns exactly N
\* frames, numbered 1..N in order, the frame at 0-based position i with timestamp
\* i * duration / N.
C7_FramesOfRequest ==
  \A r \in RunIds :
     runs[r].out.kind = "ok" =>
        LET frames == runs[r].out.frames
        IN  /\ Len(frames) = runs[r].n
            /\ \A k \in 1..Len(frames) :
                  /\ frames[k].frameNumber = k
                  /\ frames[k].timestamp
                       = ((k - 1) * ProbedDuration(PathOf(r))) \div runs[r].n

\* C8 as claimed: in the list a call of analyze returns, the record at position i
\* holds the image that call extracted for its timestamp index i, and the
\* description returned for that same image.
C8_PairedByIndex ==
  \A r \in RunIds :
     runs[r].out.kind = "ok" =>
        LET frames == runs[r].out.frames
        IN  \A k \in 1..Len(frames) :
               /\ frames[k].description = Describe(frames[k].imageData)
               /\ k <= runs[r].n =>
                     frames[k].imageData = Image(PathOf(r), runs[r].ts[k], runs[r].quality)

\* The frame extraction tasks of run r that are started and not finished.
ExtractionsOutstanding(r) ==
  {i \in DOMAIN runs[r].ext : runs[r].ext[i] \in {"running", "written"}}

RequestsOutstanding(r) ==
  {i \in DOMAIN runs[r].ana : runs[r].ana[i] = "pending"}

\* C10 as claimed: at most K (maxFrameConcurrency) frame analysis requests of a
\* video are outstanding at any time.
C10_AnalysisLimit ==
  \A r \in RunIds : Cardinality(RequestsOutstanding(r)) <= maxFrameConcurrency

\* Every frame task run r started has finished.
FrameTasksFinished(r) ==
  /\ ExtractionsOutstanding(r) = {}
  /\ RequestsOutstanding(r) = {}

\* C11 as claimed: once analyze has settled and every frame task it started has
\* finished, the scratch directory that run allocated and every file in it are gone.
C11_ScratchReleased ==
  \A r \in RunIds :
     Settled(r) /\ FrameTasksFinished(r) =>
        /\ r \notin dirs
        /\ FilesIn(files, r) = {}

\* Runs r1 and r2 execute concurrently over different videos.
ConcurrentOverDifferentVideos(r1, r2) ==
  /\ r1 /= r2
  /\ ~Settled(r1)
  /\ ~Settled(r2)
  /\ PathOf(r1) /= PathOf(r2)

\* The scratch locations run r is using: the directory it allocated and extracts
\* into, the directory it wrote the images back into and analyses them from, the
\* directory its cleanup is listing, the directory of the file it is unlinking.
LocationsUsed(r) ==
  (IF runs[r].pc \in {"mkdir", "extract"} THEN {r} ELSE {})
    \cup (IF runs[r].pc = "analyze" THEN {runs[r].wdir} ELSE {})
    \cup (IF runs[r].pc = "readdir" THEN {runs[r].cdir} ELSE {})
    \cup (IF runs[r].pc = "unlink" THEN {runs[r].unl[1]} ELSE {})

\* C12 as claimed: two runs that execute concurrently over different videos never
\* use the same scratch location, and the directory a run allocated never holds
\* a file of another video.
C12_ScratchIsolated ==
  /\ \A r1, r2 \in RunIds :
        ConcurrentOverDifferentVideos(r1, r2) =>
           LocationsUsed(r1) \cap LocationsUsed(r2) = {}
  /\ \A x \in DOMAIN files : x[1] \in RunIds => files[x][1] = PathOf(x[1])

\* The videos not yet admitted.
Queued == {i \in TaskIds : tasks[i].pc = "none"}

\* C13: videos are admitted in input order, and whenever a video is still queued
\* and fewer than K pipelines are in flight, the batch is not waiting for any
\* in-flight video: a continuation that leads to the admission is ready and runs
\* before any other pipeline event; the batch starts a wait only with K promises
\* in its set.
C13_SlidingWindow ==
  /\ \A i, j \in TaskIds : i < j /\ j \notin Queued => i \notin Queued
  /\ Queued = batch.next..Len(configs)
  /\ Queued /= {} /\ Cardinality(InFlight) < maxConcurrency => MicrotaskPending
  /\ batch.pc = "race" => Cardinality(batch.awaited) >= maxConcurrency

\* C13's case: a later video was admitted after one video settled while another,
\* admitted before, is still in flight.
C13_Witness ==
  \E i, j, k \in TaskIds :
     /\ j /= i
     /\ i < k
     /\ j < k
     /\ tasks[i].pc = "running"
     /\ tasks[j].pc = "done"
     /\ tasks[j].run /= 0
     /\ tasks[k].pc = "running"

C15_ZeroFrames ==
  \A r \in RunIds :
     runs[r].n = 0 =>
        /\ runs[r].ext = <<>>
        /\ runs[r].ana = <<>>
        /\ Settled(r) /\ runs[r].out.error.cause /= "Failed to get video duration" =>
              /\ runs[r].out.kind = "ok"
              /\ runs[r].out.frames = <<>>

\* C16: registering or analysing a video whose file does not exist fails with
\* 'Video file not found' before any duration query, extraction or inference is
\* started (no SemanticVideo and no analyze run exists for the path), and the
\* registry has no entry for the path.
C16_MissingFile ==
  /\ \A p \in Paths :
        ~FileExists(p) =>
           /\ registry[p] = 0
           /\ \A v \in DOMAIN videos : videos[v].videoPath /= p
           /\ \A r \in RunIds : PathOf(r) /= p
  /\ \A i \in TaskIds :
        ~FileExists(configs[i].videoPath) /\ tasks[i].pc /= "none" =>
           /\ tasks[i].run = 0
           /\ tasks[i].pc /= "running"
           /\ tasks[i].result.error = Failure(<<>>, "Video file not found", 0)
           /\ tasks[i].result.frames = <<>>

\* C16's case: a batch with a missing file has returned, the other videos analysed.
C16_Witness ==
  /\ batch.pc = "returned"
  /\ \E i, j \in TaskIds :
        /\ ~FileExists(configs[i].videoPath)
        /\ tasks[i].pc = "done"
        /\ PipelineSucceeded(j)

\* What an error message says, outermost first.
Says(error, what) == \E j \in DOMAIN error.prefix : error.prefix[j] = what

\* C17: when analyze fails in the analysis of the frames, its error names the
\* 1-based index of a frame whose request failed, with that request's cause, never
\* a frame that was analysed; and a run with a failed request fails this way.
C17_NamesFailedFrame ==
  \A r \in RunIds :
     Settled(r) =>
        /\ Says(runs[r].out.error, "Frame failed") =>
              /\ runs[r].out.kind = "err"
              /\ runs[r].out.error.prefix = <<"Failed to analyze video", "Frame failed">>
              /\ runs[r].out.error.frame \in DOMAIN runs[r].ana
              /\ runs[r].ana[runs[r].out.error.frame] = "failed"
              /\ runs[r].out.error.cause = RequestFault(runs[r].out.error.frame)
        /\ (\E i \in DOMAIN runs[r].ana : runs[r].ana[i] = "failed") =>
              Says(runs[r].out.error, "Frame failed")

\* C17's case: frame 1 was analysed, frame 2 failed, and the error names frame 2.
C17_Witness ==
  \E r \in RunIds :
     /\ Settled(r)
     /\ runs[r].n = 2
     /\ runs[r].ana = <<"ok", "failed">>
     /\ runs[r].out.error.frame = 2
     /\ runs[r].out.error.cause = "timeout"

\* The tokens the responses to the frames of run r reported, an absent usage
\* counting for nothing.
Reported(r, field) ==
  SumOver({i \in DOMAIN runs[r].usg : runs[r].usg[i] /= NoUsage},
          [i \in DOMAIN runs[r].usg |->
             IF runs[r].usg[i] = NoUsage THEN 0 ELSE runs[r].usg[i][field]])

\* analyze of run r returns in this step.
Returns(r) ==
  /\ runs[r].pc /= "settled"
  /\ runs'[r].pc = "settled"
  /\ runs'[r].out.kind = "ok"

\* C18 as claimed: when analyze returns, the video's token counters are the sums of
\* the tokens reported for the N frames of that run, a response without usage
\* metadata counting zero, and totalTokens is their sum.
C18_TokensOfRun ==
  [][\A r \in RunIds :
        Returns(r) =>
           LET used == getTokensUsed(videos'[runs[r].inst])
           IN  /\ used.inputTokens = Reported(r, "prompt_tokens")'
               /\ used.outputTokens = Reported(r, "completion_tokens")'
               /\ used.totalTokens = used.inputTokens + used.outputTokens]_vars

\* The analyses that have succeeded: the runs of analyze that returned, the .then
\* callback of a batch's video having run.
Succeeded ==
  {r \in RunIds :
     /\ Settled(r)
     /\ runs[r].out.kind = "ok"
     /\ runs[r].caller /= 0 => tasks[runs[r].caller].pc \in {"thened", "done"}}

\* C19 as claimed: the client's statistics include the tokens and the cost of every
\* analysis that succeeded, those started by analyzeVideo as well as those started
\* by analyzeMultipleVideos.
C19_StatsIncludeEveryAnalysis ==
  /\ stats.totalTokensUsed >=
        SumOver(Succeeded, [r \in RunIds |-> Reported(r, "prompt_tokens")
                                             + Reported(r, "completion_tokens")])
  /\ stats.totalCostIncurred >=
        SumOver(Succeeded, [r \in RunIds |->
                   calculateCost(Reported(r, "prompt_tokens"),
                                 Reported(r, "completion_tokens"),
                                 runs[r].model, FALSE)])

\* C20 as claimed: for every model identifier, getModelPricing and calculateCost
\* return without throwing; for one that is not a key of the pricing table they
\* return the default model's pricing entry and the cost computed with it.
C20_NeverThrows ==
  quote.op /= "none" =>
     /\ ~quote.threw
     /\ quote.op = "getModelPricing" /\ quote.modelId \notin DOMAIN VISION_MODELS =>
           quote.value = VISION_MODELS["gpt-5-nano"]
     /\ quote.op = "calculateCost" /\ quote.modelId \notin DOMAIN VISION_MODELS =>
           quote.value = calculateCost(quote.inputTokens, quote.outputTokens,
                                       "gpt-5-nano", quote.useCachedInput)

\* The pricing entry an identifier resolves to: its own, or the default model's.
ResolvedEntry(modelId) ==
  IF modelId \in DOMAIN VISION_MODELS THEN VISION_MODELS[modelId]
  ELSE VISION_MODELS[DEFAULT_VISION_MODEL]

\* C21: a cost calculateCost returns is (inputTokens/1e6) * inputRate +
\* (outputTokens/1e6) * outputRate of the resolved pricing entry, inputRate being
\* the cached input rate exactly when useCachedInput is true, the standard input
\* rate otherwise.
C21_CostFormula ==
  quote.op = "calculateCost" /\ ~quote.threw =>
     LET entry == ResolvedEntry(quote.modelId)
         inputRate == IF quote.useCachedInput THEN entry.cachedInputCostPerMillion
                                              ELSE entry.inputCostPerMillion
     IN  quote.value = quote.inputTokens * inputRate
                       + quote.outputTokens * entry.outputCostPerMillion

\* C21's case: a cost at the cached rate of a model whose cached rate is lower.
C21_Witness ==
  /\ quote.op = "calculateCost"
  /\ quote.modelId = "gpt-5.2"
  /\ quote.useCachedInput
  /\ quote.inputTokens = 2000
  /\ quote.outputTokens = 1000
  /\ quote.value = 2000 * 175 + 1000 * 14000

\* ceil(a / b) and floor(sqrt(n)) in exact arithmetic, by what they are.
ExactCeil(a, b) == CHOOSE k \in 0..a : (k - 1) * b < a /\ a <= k * b
ExactFloorRoot(n) == CHOOSE k \in 0..n : k * k <= n /\ n < (k + 1) * (k + 1)

\* The patch count of the claim: raw = ceil(W/32) * ceil(H/32) below 1536 patches;
\* from 1536 on, the same formula on W * s and H * s, s the adjusted shrink factor,
\* which leaves floor(x) patches on the side whose floor(x)/x is the smaller and
\* scales the other side by the same factor.
ClaimedPatches(W, H) ==
  LET raw == ExactCeil(W, 32) * ExactCeil(H, 32)
      fw == ExactFloorRoot((1536 * W) \div H)
      fh == ExactFloorRoot((1536 * H) \div W)
  IN  IF raw < 1536 THEN raw
      ELSE IF fw * H <= fh * W THEN fw * ExactCeil(fw * H, W)
      ELSE ExactCeil(fh * W, H) * fh

\* C22 as claimed: countImageTokens is ceil(patchCount * multiplier + 85) for the
\* patch count of its formula, a function of width, height and multiplier alone;
\* 1109 for a 1024 x 1024 image with multiplier 1.0.
C22_ImageTokens ==
  quote.op = "countImageTokens" =>
     /\ quote.value = ExactCeil(ClaimedPatches(quote.width, quote.height)
                                * quote.multiplier, 100) + 85
     /\ quote.width = 1024 /\ quote.height = 1024 /\ quote.multiplier = 100 =>
           quote.value = 1109

\* C23: countTextTokens never throws; when the tokenizer is unavailable for the
\* model or raises, it returns ceil(length(prompt) / 4).
C23_TextTokensNeverThrow ==
  quote.op = "countTextTokens" =>
     /\ ~quote.threw
     /\ quote.tokenizer.kind /= "ok" =>
           /\ 4 * quote.value >= quote.length
           /\ 4 * (quote.value - 1) < quote.length
     /\ quote.tokenizer.kind = "ok" => quote.value = quote.tokenizer.tokens

\* C23's case: the tokenizer raised on a prompt of 9 characters, counted as 3 tokens.
C23_Witness ==
  /\ quote.op = "countTextTokens"
  /\ quote.tokenizer.kind = "raises"
  /\ quote.length = 9
  /\ quote.value = 3
  /\ ~quote.threw

\* The estimateVideo calls that returned an estimate.
Estimated == {e \in EstimateIds : estimator.runs[e].pc = "done"}

\* C24: an estimate estimateVideo returns for N >= 1 frames has every field of its
\* total (textTokens, imageTokens, totalTokens, estimatedCost) equal to N times
\* that field of the per-frame estimate, itself measured on the one frame read, with
\* the cost calculateCost(perFrame.totalTokens, 100, model).
C24_TotalIsNTimesPerFrame ==
  \A e \in Estimated :
     LET run == estimator.runs[e]
         N == run.numPartitions
         perFrame == run.out.estimate.perFrame
         total == run.out.estimate.total
         entry == ResolvedEntry(run.model)
     IN  N >= 1 =>
         /\ run.out.estimate.numPartitions = N
         /\ total.textTokens = N * perFrame.textTokens
         /\ total.imageTokens = N * perFrame.imageTokens
         /\ total.totalTokens = N * perFrame.totalTokens
         /\ total.estimatedCost = N * perFrame.estimatedCost
         /\ perFrame.imageTokens =
               countImageTokens(SampleSize(run.measured)[1], SampleSize(run.measured)[2],
                                getImageTokenMultiplier(run.model))
         /\ perFrame.totalTokens = perFrame.textTokens + perFrame.imageTokens
         /\ perFrame.estimatedCost = perFrame.totalTokens * entry.inputCostPerMillion
                                     + 100 * entry.outputCostPerMillion

\* C24's case: an estimate for 10 frames of a.mp4 and one for 2 frames were returned.
C24_Witness ==
  \E e, f \in Estimated :
     /\ estimator.runs[e].numPartitions = 10
     /\ estimator.runs[e].videoPath = "a.mp4"
     /\ estimator.runs[e].out.estimate.total.totalTokens
           = 10 * estimator.runs[e].out.estimate.perFrame.totalTokens
     /\ estimator.runs[f].numPartitions = 2
     /\ estimator.runs[f].out.estimate.total.estimatedCost
           = 2 * estimator.runs[f].out.estimate.perFrame.estimatedCost
     /\ estimator.runs[f].out.estimate.perFrame.estimatedCost > 0

\* The estimateVideo calls estimateMultipleVideos has made, in order.
MultiRuns == SelectSeq(estimator.runs, LAMBDA run : run.caller = 1)

RECURSIVE EstimatesOf(_)
EstimatesOf(rs) ==
  IF rs = <<>> THEN <<>>
  ELSE IF Head(rs).out.kind = "ok" THEN <<Head(rs).out.estimate>> \o EstimatesOf(Tail(rs))
  ELSE EstimatesOf(Tail(rs))

\* C25: estimateMultipleVideos never rejects; it estimates the videos one by one in
\* input order and, every one of them settled, returns: its videos list is, in
\* input order, exactly the estimates of the videos whose estimation succeeded, and
\* grandTotal's tokens and cost are the sums over those.
C25_FailuresSkipped ==
  LET multi == estimator.multi
  IN  /\ multi.pc \in {"idle", "running", "returned"}
      /\ multi.pc /= "idle" =>
            /\ Len(MultiRuns) <= Len(multi.configs)
            /\ \A i \in DOMAIN MultiRuns :
                  MultiRuns[i].videoPath = multi.configs[i].videoPath
      /\ multi.pc = "running" =>
            /\ MultiRuns /= <<>>
            /\ MultiRuns[Len(MultiRuns)].out.kind = ""
      /\ multi.pc = "returned" =>
            /\ Len(MultiRuns) = Len(multi.configs)
            /\ \A i \in DOMAIN MultiRuns : MultiRuns[i].out.kind \in {"ok", "err"}
            /\ multi.videos = EstimatesOf(MultiRuns)
            /\ multi.totalTokens =
                  SumSeq([i \in DOMAIN multi.videos |-> multi.videos[i].total.totalTokens])
            /\ multi.totalCost =
                  SumSeq([i \in DOMAIN multi.videos |-> multi.videos[i].total.estimatedCost])

\* C25's case: of two videos the first could not be estimated, and the call
\* returned the estimate of the second.
C25_Witness ==
  /\ estimator.multi.pc = "returned"
  /\ Len(estimator.multi.configs) = 2
  /\ MultiRuns[1].out.kind = "err"
  /\ MultiRuns[2].out.kind = "ok"
  /\ Len(estimator.multi.videos) = 1
  /\ estimator.multi.totalTokens = MultiRuns[2].out.estimate.total.totalTokens
  /\ estimator.multi.totalTokens > 0

\* The paths a caller has registered and not since removed or cleared, from the
\* calls alone.
RECURSIVE RegisteredBy(_)
RegisteredBy(h) ==
  IF h = <<>> THEN {}
  ELSE LET c == h[Len(h)]
           earlier == RegisteredBy(SubSeq(h, 1, Len(h) - 1))
       IN  CASE c.op \in {"create", "getOrCreate"} /\ ~c.threw -> earlier \cup {c.videoPath}
             [] c.op = "remove" -> earlier \ {c.videoPath}
             [] c.op = "clear" -> {}
             [] OTHER -> earlier

Registered(reg) == {p \in DOMAIN reg : get(reg, p) /= 0}

\* C26: after any sequence of create, getOrCreate, remove and clear the registry
\* holds one instance, an instance of that path and of no other, for each path
\* registered and not since removed or cleared, and count is the number of those
\* paths; a create on a registered path replaces the instance by the new one, which
\* get then returns, and leaves count unchanged.
C26_OneInstancePerPath ==
  /\ Registered(registry) = RegisteredBy(history)
  /\ count(registry) = Cardinality(RegisteredBy(history))
  /\ \A p \in Registered(registry) :
        /\ get(registry, p) \in DOMAIN videos
        /\ videos[get(registry, p)].videoPath = p
  /\ \A i \in DOMAIN history :
        LET c == history[i]
        IN  (c.op = "create" /\ ~c.threw /\ get(c.before, c.videoPath) /= 0) =>
               /\ get(c.after, c.videoPath) = c.value
               /\ c.value /= get(c.before, c.videoPath)
               /\ count(c.after) = count(c.before)

\* C26's case: a create on a registered path, after a remove and with another path
\* registered.
C26_Witness ==
  /\ Len(history) = MaxRegistryCalls
  /\ history[1].op = "getOrCreate" /\ ~history[1].threw
  /\ history[2].op = "create" /\ history[2].videoPath /= history[1].videoPath
  /\ ~history[2].threw
  /\ history[3].op = "remove" /\ history[3].videoPath = history[1].videoPath
  /\ history[4].op = "create" /\ history[4].videoPath = history[2].videoPath
  /\ count(registry) = 1
  /\ get(registry, history[4].videoPath) = 3

\* C27: remove(path) returns true exactly when the path was registered; after it
\* get(path) is undefined and every other path maps to the instance it mapped to.
C27_RemoveOnlyThatPath ==
  \A i \in DOMAIN history :
     LET c == history[i]
     IN  c.op = "remove" =>
            /\ ~c.threw
            /\ c.value = (get(c.before, c.videoPath) /= 0)
            /\ get(c.after, c.videoPath) = 0
            /\ \A q \in Paths \ {c.videoPath} : get(c.after, q) = get(c.before, q)
            /\ i = Len(history) => registry = c.after

\* C27's case: with two paths registered, one is removed, and removed once more.
C27_Witness ==
  /\ Len(history) = MaxRegistryCalls
  /\ count(history[3].before) = 2
  /\ history[3].op = "remove" /\ history[3].value = TRUE
  /\ history[4].op = "remove" /\ history[4].value = FALSE
  /\ history[4].videoPath = history[3].videoPath
  /\ count(registry) = 1

\* The number of instances constructed by the time call i has returned.
ConstructedAfter(i) ==
  IF i = Len(history) THEN Len(videos) ELSE history[i + 1].constructed

\* C28: getOrCreate(path) returns the registered instance, constructing and
\* registering nothing, when the path is registered; otherwise it constructs one
\* instance and registers it (or throws, the file missing, and registers nothing);
\* a second call right after the first returns the same instance and leaves count
\* as the first left it.
C28_GetOrCreate ==
  \A i \in DOMAIN history :
     LET c == history[i]
     IN  c.op = "getOrCreate" =>
            /\ get(c.before, c.videoPath) /= 0 =>
                  /\ ~c.threw
                  /\ c.value = get(c.before, c.videoPath)
                  /\ c.after = c.before
                  /\ ConstructedAfter(i) = c.constructed
            /\ (get(c.before, c.videoPath) = 0 /\ ~c.threw) =>
                  /\ ConstructedAfter(i) = c.constructed + 1
                  /\ c.value = ConstructedAfter(i)
                  /\ c.after = [c.before EXCEPT ![c.videoPath] = c.value]
            /\ c.threw =>
                  /\ ~FileExists(c.videoPath)
                  /\ c.after = c.before
                  /\ ConstructedAfter(i) = c.constructed
            /\ (i > 1 /\ history[i - 1].op = "getOrCreate" /\ ~history[i - 1].threw
                  /\ history[i - 1].videoPath = c.videoPath) =>
                  /\ ~c.threw
                  /\ c.value = history[i - 1].value
                  /\ count(c.after) = count(history[i - 1].after)

\* C28's case: getOrCreate twice on a path not registered before, with another
\* path registered.
C28_Witness ==
  /\ Len(history) >= 3
  /\ history[1].op = "create" /\ ~history[1].threw
  /\ history[2].op = "getOrCreate" /\ history[2].videoPath /= history[1].videoPath
  /\ history[2].value = 2
  /\ history[3].op = "getOrCreate" /\ history[3].videoPath = history[2].videoPath
  /\ history[3].value = 2
  /\ Len(videos) = 2
  /\ count(registry) = 2

\* C29: reset brings tokens, cost and apiCalls to zero whatever they were; a reset
\* after a reset changes nothing; and a recordAnalysis after a reset leaves the
\* totals of that one call: its tokens, its frames and, unless it threw, its cost.
C29_ResetToZero ==
  \A i \in DOMAIN history :
     LET c == history[i]
     IN  /\ c.op = "reset" =>
               /\ ~c.threw
               /\ tokens(c.after) = 0 /\ cost(c.after) = 0 /\ apiCalls(c.after) = 0
               /\ i = Len(history) => stats = c.after
         /\ (i > 1 /\ c.op = "reset" /\ history[i - 1].op = "reset") =>
               c.after = c.before
         /\ (i > 1 /\ c.op = "recordAnalysis" /\ history[i - 1].op = "reset") =>
               /\ tokens(c.after) = c.inputTokens + c.outputTokens
               /\ apiCalls(c.after) = c.frameCount
               /\ cost(c.after) =
                     IF c.threw THEN 0
                     ELSE calculateCost(c.inputTokens, c.outputTokens, c.model, FALSE)

\* C29's case: totals that are not zero, reset twice, then an analysis recorded.
C29_Witness ==
  /\ Len(history) = MaxStatsCalls
  /\ history[1].op = "recordAnalysis"
  /\ tokens(history[1].after) > 0 /\ cost(history[1].after) > 0
  /\ apiCalls(history[1].after) > 0
  /\ history[2].op = "reset"
  /\ history[3].op = "reset"
  /\ tokens(stats) = 0 /\ cost(stats) = 0 /\ apiCalls(stats) = 0

\* The recordAnalysis calls since construction or the last reset.
RECURSIVE SinceReset(_)
SinceReset(h) ==
  IF h = <<>> \/ h[Len(h)].op = "reset" THEN <<>>
  ELSE Append(SinceReset(SubSeq(h, 1, Len(h) - 1)), h[Len(h)])

\* C30: every recordAnalysis call returns, and after any sequence of them since
\* construction or the last reset tokens is the sum of inputTokens + outputTokens,
\* apiCalls the sum of frameCount and cost the sum of
\* calculateCost(inputTokens, outputTokens, model) over those calls.
C30_TotalsAreSums ==
  LET recorded == SinceReset(history)
  IN  /\ \A i \in DOMAIN recorded : ~recorded[i].threw
      /\ tokens(stats) =
            SumSeq([i \in DOMAIN recorded |->
                      recorded[i].inputTokens + recorded[i].outputTokens])
      /\ apiCalls(stats) = SumSeq([i \in DOMAIN recorded |-> recorded[i].frameCount])
      /\ cost(stats) =
            SumSeq([i \in DOMAIN recorded |->
                      calculateCost(recorded[i].inputTokens, recorded[i].outputTokens,
                                    recorded[i].model, FALSE)])

\* The batch state of a logger is that of a new one.
BatchStateCleared(lg) ==
  /\ lg.videoProgress = {}
  /\ lg.completedVideos = 0
  /\ lg.totalInputTokens = 0 /\ lg.totalOutputTokens = 0 /\ lg.totalCost = 0
  /\ lg.batchResults = <<>>

\* C31: after Logger.reset the per-video progress is empty and the total and
\* completed video counts, the accumulated input and output tokens, the accumulated
\* cost and the stored batch results are zero or empty; a reset after a reset
\* changes nothing.
C31_LoggerResetClearsAll ==
  \A i \in DOMAIN history :
     LET c == history[i]
     IN  c.op = "reset" =>
            /\ BatchStateCleared(c.after)
            /\ c.after.totalVideos = 0
            /\ (i > 1 /\ history[i - 1].op = "reset") => c.after = c.before

\* The videos completeVideo has stored since the last initBatch call.
RECURSIVE CompletedSince(_)
CompletedSince(h) ==
  IF h = <<>> \/ h[Len(h)].op = "initBatch" THEN <<>>
  ELSE LET c == h[Len(h)]
           earlier == CompletedSince(SubSeq(h, 1, Len(h) - 1))
       IN  IF c.op = "completeVideo" /\ c.after /= c.before
              THEN Append(earlier, c.args[1])
              ELSE earlier

\* C39: right after every initBatch call the completed-video count, the accumulated
\* tokens and cost, the per-video progress and the stored batch results are zero or
\* empty, and the rows a later completeBatch prints are of videos completed since
\* the last initBatch call.
C39_InitBatchStartsFresh ==
  \A i \in DOMAIN history :
     LET c == history[i]
     IN  /\ c.op = "initBatch" => BatchStateCleared(c.after)
         /\ (c.op = "completeBatch" /\ c.report.printed
               /\ \E j \in 1..(i - 1) : history[j].op = "initBatch") =>
               /\ Len(c.report.rows) <= Len(CompletedSince(SubSeq(history, 1, i - 1)))
               /\ c.report.totalInputTokens
                    <= 1000 * Len(CompletedSince(SubSeq(history, 1, i - 1)))

\* The frames run r of analyze produced: for each timestamp of the run, the image
\* extracted for it and the description of that image.
OwnFrames(r) ==
  [k \in 1..runs[r].n |->
     [frameNumber |-> k,
      timestamp |-> ((k - 1) * ProbedDuration(PathOf(r))) \div runs[r].n,
      imageData |-> Image(PathOf(r), runs[r].ts[k], runs[r].quality),
      description |-> Describe(Image(PathOf(r), runs[r].ts[k], runs[r].quality))]]

\* C32 as claimed: each successful outcome of analyzeMultipleVideos reports the
\* frames, the token counts, the model and the duration of its own pipeline run,
\* also when a video path appears in two configs of the batch.
C32_OutcomeOfOwnRun ==
  \A i \in TaskIds :
     PipelineSucceeded(i) =>
        LET r == tasks[i].run
            result == tasks[i].result
        IN  /\ result.frames = OwnFrames(r)
            /\ result.inputTokensUsed = Reported(r, "prompt_tokens")
            /\ result.outputTokensUsed = Reported(r, "completion_tokens")
            /\ result.modelUsed = runs[r].model
            /\ result.videoDuration = ProbedDuration(PathOf(r))

\* What analyze stores in the video: its frames, token counters and model.
Stored(video) ==
  <<video.frames, video.inputTokensUsed, video.outputTokensUsed, video.modelUsed>>

\* C33: a call of analyze that fails stores nothing: the frames, the token counters
\* and the model of the video change only in a step of a call whose frames were all
\* extracted and analysed, which goes on to return, so that after a failed call
\* they are what they were before it.
C33_FailedRunStoresNothing ==
  [][\A r \in RunIds :
        /\ (runs'[r] /= runs[r]
              /\ Stored(videos'[runs[r].inst]) /= Stored(videos[runs[r].inst])) =>
              /\ Len(runs'[r].ana) = runs[r].n
              /\ AllOk(runs'[r].ana)
              /\ AllOk(runs'[r].ext)
              /\ \/ runs'[r].pc = "settled" /\ runs'[r].out.kind = "ok"
                 \/ runs'[r].pc = "readdir" /\ runs'[r].after.kind = "return"
        /\ runs[r].pc \in {"readdir", "unlink"} =>
              /\ runs'[r].after = runs[r].after
              /\ runs'[r].pc \in {"readdir", "unlink", "settled"}
              /\ (runs'[r].pc = "settled" /\ runs[r].after.kind = "return") =>
                    runs'[r].out.kind = "ok"
              /\ (runs'[r].pc = "settled" /\ runs[r].after.kind = "throw") =>
                    runs'[r].out.kind = "err"]_vars

\* C33's case: a video holds the frames of a call that returned, and a later call
\* on it for more frames has failed.
C33_Witness ==
  \E r, q \in RunIds :
     /\ r /= q
     /\ runs[r].inst = runs[q].inst
     /\ Settled(r) /\ runs[r].out.kind = "ok" /\ runs[r].n = 1
     /\ Settled(q) /\ runs[q].out.kind = "err" /\ runs[q].n = 2
     /\ FrameFailed(q)
     /\ videos[runs[q].inst].frames = runs[r].out.frames
     /\ Len(videos[runs[q].inst].frames) = 1

\* C34: in every reachable state the stored frames of every SemanticVideo are
\* numbered 1, 2, ..., n in list order, and getFrame(k) is the frame at position k
\* for 1 <= k <= n and undefined for any other k.
C34_FramesNumberedFromOne ==
  \A v \in DOMAIN videos :
     LET frames == videos[v].frames
     IN  /\ \A k \in DOMAIN frames : frames[k].frameNumber = k
         /\ \A k \in -1..(MaxFrames + 1) :
               getFrame(videos[v], k) = IF k \in 1..Len(frames) THEN frames[k]
                                        ELSE Undefined

\* C34's case: a video analysed for one frame, then analysed again for two, of
\* which getFrame(2) is the second.
C34_Witness ==
  \E r, q \in RunIds :
     /\ r < q
     /\ runs[r].inst = runs[q].inst
     /\ Settled(r) /\ runs[r].out.kind = "ok" /\ runs[r].n = 1
     /\ Settled(q) /\ runs[q].out.kind = "ok" /\ runs[q].n = 2
     /\ Len(videos[runs[q].inst].frames) = 2
     /\ getFrame(videos[runs[q].inst], 2) = videos[runs[q].inst].frames[2]
     /\ getFrame(videos[runs[q].inst], 3) = Undefined

\* C35 as claimed: analyzeMultipleVideos runs each video's pipeline with the frame
\* count its config requests, and with 10 only when the config gives none; a config
\* requesting 0 frames gets a successful outcome with an empty frame list.
C35_RequestedFrameCount ==
  \A i \in TaskIds :
     /\ tasks[i].run /= 0 =>
           runs[tasks[i].run].n = IF configs[i].numPartitions = NotGiven
                                     THEN DefaultPartitions
                                     ELSE configs[i].numPartitions
     /\ (PipelineSucceeded(i) /\ configs[i].numPartitions = 0) =>
           tasks[i].result.frames = <<>>

\* C36: when every admitted pipeline settles, analyzeMultipleVideos eventually
\* returns; and when it has returned every input video has settled, its promise
\* chain has run to the end, and the set of executing promises is empty.
C36_EventuallyReturns ==
  /\ <>(batch.pc = "returned")
  /\ [](batch.pc = "returned" =>
          /\ batch.executing = {}
          /\ InFlight = {}
          /\ \A i \in TaskIds :
                /\ tasks[i].pc = "done"
                /\ tasks[i].run /= 0 => Settled(tasks[i].run))

\* C36's case: a batch of two videos on a client of video limit 1 has returned, one
\* of the videos having failed.
C36_Witness ==
  /\ batch.pc = "returned"
  /\ Len(configs) = MaxLiveVideos
  /\ maxConcurrency = 1
  /\ \E i \in TaskIds : PipelineFailed(i) /\ tasks[i].run /= 0
  /\ \E i \in TaskIds : PipelineSucceeded(i)
  /\ batch.executing = {}

\* C37: the scheduler has no timeout and no cancellation.  A video is admitted only
\* in a state with fewer than K (the video-level limit) admitted pipelines unsettled,
\* so K pipelines that never settle keep every queued video out; a pipeline leaves
\* the unsettled ones only by a step in which its own run settles; and the call
\* returns only from a state with no admitted pipeline unsettled.
C37_NeverSettledBlocks ==
  /\ [][batch'.next > batch.next => Cardinality(InFlight) < maxConcurrency]_vars
  /\ [][\A i \in InFlight :
           tasks'[i].pc /= "running" =>
              /\ ~Settled(tasks[i].run)
              /\ runs'[tasks[i].run].pc = "settled"]_vars
  /\ [][(batch'.pc = "returned" /\ batch.pc /= "returned") => InFlight = {}]_vars
  /\ [](batch.pc = "returned" => InFlight = {})

\* C37's case: K = 2 pipelines are unsettled, a third video is queued, and the
\* loop waits.
C37_Witness ==
  /\ maxConcurrency = 2
  /\ Cardinality(InFlight) = maxConcurrency
  /\ batch.next <= Len(configs)
  /\ batch.pc = "race"

\* The estimateVideo runs between the start of their try block and the end of their
\* cleanup: the runs using the sample-frame path.
OnSamplePath ==
  {e \in EstimateIds :
     estimator.runs[e].pc \in {"mkdir", "ffmpeg", "measure", "unlink", "unlinkErr",
                               "rmdir", "rmdirErr"}}

\* C38: no estimateVideo run measures a sample frame extracted from another video,
\* and no two runs use the sample-frame path at the same time.
C38_OwnSampleFrame ==
  /\ \A e \in EstimateIds :
        estimator.runs[e].measured /= NoImage =>
           estimator.runs[e].measured = SampleFrame(estimator.runs[e].videoPath)
  /\ Cardinality(OnSamplePath) <= 1

\* The quotient q is the number a / b.
IsQuotient(q, a, b) == q.kind = "number" /\ q.den /= 0 /\ q.num * b = a * q.den

\* C40: no average of getStats is the outcome of a division by zero.  With no video
\* registered averageFramesPerVideo and averageTokensPerVideo are 0; with no frame
\* in the registered videos averageTokensPerFrame is 0; otherwise each average is
\* the tracked total divided by the number of registered videos, or of their frames.
C40_AveragesGuarded ==
  \A i \in DOMAIN history :
     history[i].op = "getStats" =>
        LET c == history[i]
            registered == Len(c.iterated)
            frames == SumSeq([k \in DOMAIN c.iterated |-> Len(c.iterated[k].frames)])
            v == c.value
        IN  /\ ~c.threw
            /\ v.averageFramesPerVideo.kind = "number"
            /\ v.averageTokensPerVideo.kind = "number"
            /\ v.averageTokensPerFrame.kind = "number"
            /\ registered = 0 =>
                  /\ v.averageFramesPerVideo = Zero
                  /\ v.averageTokensPerVideo = Zero
            /\ frames = 0 => v.averageTokensPerFrame = Zero
            /\ registered > 0 =>
                  /\ IsQuotient(v.averageFramesPerVideo, frames, registered)
                  /\ IsQuotient(v.averageTokensPerVideo, tokens(c.before), registered)
            /\ frames > 0 => IsQuotient(v.averageTokensPerFrame, tokens(c.before), frames)

\* C40's case: with tokens recorded, statistics asked for while the registered
\* videos hold no frame, then while they hold three.
C40_Witness ==
  /\ Len(history) = MaxStatsCalls
  /\ history[1].op = "recordAnalysis" /\ tokens(history[1].after) > 0
  /\ history[2].op = "getStats"
  /\ Len(history[2].iterated) > 0
  /\ history[2].value.totalFrames = 0
  /\ history[2].value.averageTokensPerFrame = Zero
  /\ history[2].value.averageTokensPerVideo.num > 0
  /\ history[3].op = "getStats"
  /\ history[3].value.totalFrames = 3
  /\ history[3].value.averageTokensPerFrame.num > 0

====
